---------------------------- MODULE Spec2Model ----------------------------
(***************************************************************************)
(* A model of Stockings: a message-framing layer over a connected socket.  *)
(*                                                                         *)
(*   - MessageHeaders (Stockings/utils/MessageHeaders.py): the variable    *)
(*     length header codec, as operators driven by the specification       *)
(*     SpecHdr.                                                            *)
(*   - Connection (connection.py) with the worker loops of Connection,     *)
(*     PollStocking and SelectStocking, as a pair of connected endpoints,  *)
(*     driven by the specification Spec.                                   *)
(***************************************************************************)
EXTENDS Integers, Sequences, FiniteSets, TLC

(***************************************************************************)
(* Part 1.  MessageHeaders                                                 *)
(***************************************************************************)

\* Python's None, for getLength()/getType() before a header is complete.
None == -1

\* MessageHeaders.BYTES / MessageHeaders.UNICODE
BYTES == 0
UNICODE == 1

\* The classes a caller passes as `typ` to serialize (type(message)).
PyTypes == {"bytes", "unicode"}

\* The tag deserialize is expected to report for a message of class typ.
TypeTag(typ) == IF typ = "bytes" THEN BYTES ELSE UNICODE

\* while length: chars.append(length & 127); length >>= 7
RECURSIVE serializeRest(_)
serializeRest(length) ==
    IF length = 0 THEN << >>
    ELSE << length % 128 >> \o serializeRest(length \div 128)

\* A mutant of serialize: the terminal bit is set on the first byte, not the
\* last.
serialize_terminalFirst(typ, length) ==
    LET first == (IF typ = "bytes" THEN 64 ELSE 0) + (length % 64)
        chars == << first >> \o serializeRest(length \div 64)
    IN  [chars EXCEPT ![1] = @ + 128]

\* A mutant of serialize: the loop runs once more and emits a byte with no
\* length bits before the terminal bit is set.
serialize_trailingZero(typ, length) ==
    LET first == (IF typ = "bytes" THEN 64 ELSE 0) + (length % 64)
        chars == << first >> \o serializeRest(length \div 64) \o << 0 >>
    IN  [chars EXCEPT ![Len(chars)] = @ + 128]

\* MessageHeaders.serialize(typ, length): the header as a sequence of bytes.
serialize(typ, length) ==
    LET first == (IF typ = "bytes" THEN 64 ELSE 0) + (length % 64)
        chars == << first >> \o serializeRest(length \div 64)
    IN  [chars EXCEPT ![Len(chars)] = @ + 128]

\* The class attributes of a fresh MessageHeaders instance.
FreshHeaders == [msgLength |-> 0, completed |-> FALSE, shift |-> 1, type |-> None]

\* MessageHeaders.reset()
reset_keepShift(h) == [h EXCEPT !.msgLength = 0, !.completed = FALSE, !.type = None]
reset(h) == [msgLength |-> 0, completed |-> FALSE, shift |-> 1, type |-> None]

\* MessageHeaders.getLength()
getLength(h) == IF h.completed THEN h.msgLength ELSE None

\* MessageHeaders.getType()
getType(h) == h.type

\* The first byte of a header: 6 length bits, the type flag, the terminal bit.
deserializeFirst(h, char) ==
    [msgLength |-> h.msgLength + (char % 64),
     completed |-> (char \div 128) % 2 = 1,
     shift     |-> h.shift * 64,
     type      |-> IF (char \div 64) % 2 = 1 THEN BYTES ELSE UNICODE]

\* for i, char in enumerate(st): the later bytes, 7 length bits each; stops at
\* the byte that carries the terminal bit.
RECURSIVE deserializeLoop(_, _)
deserializeLoop(h, st) ==
    IF st = << >> THEN h
    ELSE LET char == Head(st)
             h1   == [h EXCEPT !.msgLength = @ + h.shift * (char % 128)]
         IN  IF (char \div 128) % 2 = 1
             THEN [h1 EXCEPT !.completed = TRUE]
             ELSE deserializeLoop([h1 EXCEPT !.shift = @ * 128], Tail(st))

\* A mutant of deserialize: every call takes its first byte for the header's
\* first byte (the _shift == 1 test is lost).
deserialize_firstEachCall(h, st) ==
    IF h.completed THEN [h |-> h, ret |-> TRUE, raised |-> FALSE]
    ELSE IF st = << >> THEN [h |-> h, ret |-> FALSE, raised |-> TRUE]
    ELSE LET h1 == deserializeFirst(h, Head(st))
         IN  IF h1.completed
             THEN [h |-> h1, ret |-> TRUE, raised |-> FALSE]
             ELSE LET h2 == deserializeLoop(h1, Tail(st))
                  IN  [h |-> h2, ret |-> h2.completed, raised |-> FALSE]

\* MessageHeaders.deserialize(st): the new parse state, the returned boolean,
\* and whether the call raised (st[0] of an empty st on the first byte).
deserialize(h, st) ==
    IF h.completed THEN [h |-> h, ret |-> TRUE, raised |-> FALSE]
    ELSE IF h.shift = 1
         THEN IF st = << >>
              THEN [h |-> h, ret |-> FALSE, raised |-> TRUE]
              ELSE LET h1 == deserializeFirst(h, Head(st))
                   IN  IF h1.completed
                       THEN [h |-> h1, ret |-> TRUE, raised |-> FALSE]
                       ELSE LET h2 == deserializeLoop(h1, Tail(st))
                            IN  [h |-> h2, ret |-> h2.completed, raised |-> FALSE]
         ELSE LET h2 == deserializeLoop(h, st)
              IN  [h |-> h2, ret |-> h2.completed, raised |-> FALSE]


(***************************************************************************)
(* Part 2.  Connection: framing, pipes and the socket                      *)
(***************************************************************************)

\* The two ends of one connected socket pair (test.py setUp: server, client).
Conns == {1, 2}
Peer(c) == 3 - c

\* Connection.__init__(conn, maxMsgLen=65536)
DefaultMaxMsgLen == 65536

\* Bounds of the model.
MaxLen == 2          \* longest payload an owner writes
SockCap == 4         \* bytes one direction of the socket pair can hold
MaxWrites == 2       \* write() calls of the first owner (data specification)
MaxWritesPeer == 1   \* write() calls of the second owner (data specification)
MaxWritesLife == 1   \* write() calls per owner (lifecycle specification)
MaxCloses == 2       \* close() calls per owner

\* The messages owners write: one per length, the empty one included.
Msgs == { [i \in 1..n |-> 6 + n] : n \in 0..MaxLen }

\* self._headerLen = max(1, int(math.ceil(math.log(self._maxMsgLen, 2) / 8)))
headerLenOf(maxMsgLen) ==
    LET h == CHOOSE k \in 0..3 : 256^k >= maxMsgLen /\ (k = 0 \/ 256^(k-1) < maxMsgLen)
    IN  IF h < 1 THEN 1 ELSE h

maxMsgLen == DefaultMaxMsgLen
headerLen == headerLenOf(maxMsgLen)

\* while length: remainder = length % 256; length /= 256; st += chr(remainder)
RECURSIVE lengthDigits(_)
lengthDigits(length) ==
    IF length = 0 THEN << >>
    ELSE << length % 256 >> \o lengthDigits(length \div 256)

\* str.ljust(width, '\x00'): pads on the right, never truncates.
ljust(st, width) ==
    IF Len(st) >= width THEN st
    ELSE st \o [i \in 1..(width - Len(st)) |-> 0]

\* Connection.__serializeMessageLength(length), self._headerLen being width
serializeMessageLengthW_noMinusOne(length, width) == ljust(lengthDigits(length), width)
serializeMessageLengthW(length, width) == ljust(lengthDigits(length - 1), width)

\* Connection.__serializeMessageLength(length) with the default maxMsgLen
serializeMessageLength(length) == serializeMessageLengthW(length, headerLen)

\* Connection.__deserializeMessageLength(st)
RECURSIVE deserializeSum(_, _)
deserializeSum(st, exp) ==
    IF st = << >> THEN 0
    ELSE (256^exp) * Head(st) + deserializeSum(Tail(st), exp + 1)

deserializeMessageLength_noPlusOne(st) == deserializeSum(st, 0)
deserializeMessageLength(st) == deserializeSum(st, 0) + 1

\* What _write puts on the pipe for msg: the length header, then the payload.
Frame(msg) == serializeMessageLength(Len(msg)) \o msg

Take(s, n) == SubSeq(s, 1, IF n < Len(s) THEN n ELSE Len(s))
Drop(s, n) == SubSeq(s, (IF n < Len(s) THEN n ELSE Len(s)) + 1, Len(s))


(***************************************************************************)
(* Part 3.  State                                                          *)
(***************************************************************************)

VARIABLES
    \* MessageHeaders driver (SpecHdr)
    hTyp,               \* class of the message whose header is being fed
    hLength,            \* its length
    hInst,              \* the MessageHeaders instance (its four attributes)
    hFed,               \* how many bytes of serialize(hTyp, hLength) were fed
    hRets,              \* what each deserialize call on this header returned
    hUses,              \* headers this instance has parsed before this one
    \* fixed-width length header driver (SpecLen)
    szMaxMsgLen,        \* the maxMsgLen the Connection was constructed with
    szLength,           \* length of the message whose header is serialized
    szSt,               \* what __serializeMessageLength returned, << >> before
    szBack,             \* what __deserializeMessageLength made of it, None before
    \* eintr.recv driver (SpecEintr)
    rvOutcomes,         \* what the calls of sock.recv give, in order
    rvTurns,            \* how many times eintr.recv has called sock.recv
    rvPc,               \* eintr.recv: "idle", "calling" (in the loop) or "done"
    rvResult,           \* how eintr.recv ended: what it returned or raised
    \* Connection pair (Spec, SpecData)
    strategy,           \* which run loop both ends use
    active,             \* Connection.active
    handshakeComplete,  \* Connection.handshakeComplete
    hs,                 \* the handshake thread: where it is
    hsResult,           \* what handshake() gave: "none", "True", "False", "raised"
    closed,             \* which of sock, _usIn, _usOut, _parentIn, _parentOut are closed
    outPipe,            \* _parentOut -> _usIn: framed messages queued by write()
    inPipe,             \* _usOut -> _parentIn: messages delivered by the worker
    sockIn,             \* bytes that reached this end's socket, not yet recv'd
    iBuffer,            \* Connection._iBuffer
    iBufferLen,         \* Connection._iBufferLen
    oBuffer,            \* Connection._oBuffer
    registered,         \* the poller watches _parentIn, sock and _usIn
    sockMask,           \* events the poller watches on sock: "IN" or "INOUT"
    wpc,                \* the worker thread: where it is in run()
    events,             \* what the last poll()/select() returned, not yet handled
    werr,               \* the error that escaped run(), "none" if none
    sc,                 \* per thread: the next statement of __signalClose (0: not in it)
    ioLock,             \* _ioLock is held by close()
    closes,             \* completed close() calls
    lastCall,           \* how the owner's last API call ended (returned or raised)
    \* history
    sent,               \* messages write() queued, in order
    recvd,              \* messages read() returned, in order
    delivered,          \* messages the worker put on _usOut, in order
    wireLog             \* bytes the socket accepted from this end, in order

lenVars == << szMaxMsgLen, szLength, szSt, szBack >>
eintrVars == << rvOutcomes, rvTurns, rvPc, rvResult >>
hdrVars == << hTyp, hLength, hInst, hFed, hRets, hUses, lenVars, eintrVars >>
ownerVars == << closes, lastCall, sent, recvd >>
connVars == << strategy, active, handshakeComplete, hs, hsResult, closed, outPipe,
               inPipe, sockIn, iBuffer, iBufferLen, oBuffer, registered, sockMask,
               wpc, events, werr, sc, ioLock, closes, lastCall, sent, recvd,
               delivered, wireLog >>
vars == << hTyp, hLength, hInst, hFed, hRets, hUses,
           szMaxMsgLen, szLength, szSt, szBack, rvOutcomes, rvTurns, rvPc, rvResult,
           strategy, active, handshakeComplete, hs, hsResult, closed, outPipe,
           inPipe, sockIn, iBuffer, iBufferLen, oBuffer, registered, sockMask,
           wpc, events, werr, sc, ioLock, closes, lastCall, sent, recvd,
           delivered, wireLog >>

\* lastCall after an API call that returned normally.
Returned == [conn |-> 0, op |-> "none", exc |-> "none"]
\* lastCall after a write() of connection c that returned normally without
\* queueing anything (_write's `if self.active and len(msg)` was false).
WroteNothing(c) == [conn |-> c, op |-> "write", exc |-> "none"]

FDs == {"sock", "usIn", "usOut", "parentIn", "parentOut"}
Threads == {"worker", "hs", "owner"}
Strategies == {"Connection", "PollStocking", "SelectStocking"}

\* The class attributes and what __init__ sets, for both ends; run() has not
\* started yet (self.start() only schedules the thread).
ConnInit ==
    /\ active = [c \in Conns |-> TRUE]
    /\ handshakeComplete = [c \in Conns |-> FALSE]
    /\ hs = [c \in Conns |-> "unstarted"]
    /\ hsResult = [c \in Conns |-> "none"]
    /\ closed = [c \in Conns |-> {}]
    /\ outPipe = [c \in Conns |-> << >>]
    /\ inPipe = [c \in Conns |-> << >>]
    /\ sockIn = [c \in Conns |-> << >>]
    /\ iBuffer = [c \in Conns |-> << >>]
    /\ iBufferLen = [c \in Conns |-> 0]
    /\ oBuffer = [c \in Conns |-> << >>]
    /\ registered = [c \in Conns |-> FALSE]
    /\ sockMask = [c \in Conns |-> "IN"]
    /\ wpc = [c \in Conns |-> "start"]
    /\ events = [c \in Conns |-> {}]
    /\ werr = [c \in Conns |-> "none"]
    /\ sc = [c \in Conns |-> [t \in Threads |-> 0]]
    /\ ioLock = [c \in Conns |-> FALSE]
    /\ closes = [c \in Conns |-> 0]
    /\ lastCall = Returned
    /\ sent = [c \in Conns |-> << >>]
    /\ recvd = [c \in Conns |-> << >>]
    /\ delivered = [c \in Conns |-> << >>]
    /\ wireLog = [c \in Conns |-> << >>]

HdrIdle ==
    /\ hTyp = "bytes"
    /\ hLength = 0
    /\ hInst = FreshHeaders
    /\ hFed = 0
    /\ hRets = << >>
    /\ hUses = 0

\* The length codec of a Connection with the default maxMsgLen, not yet used.
LenIdle ==
    /\ szMaxMsgLen = maxMsgLen
    /\ szLength = 1
    /\ szSt = << >>
    /\ szBack = None

\* No call of eintr.recv has been made.
NoError == [cls |-> "none", errno |-> None]
NoResult == [how |-> "none", isNone |-> FALSE, bytes |-> << >>, exc |-> NoError]
EintrIdle ==
    /\ rvOutcomes = << >>
    /\ rvTurns = 0
    /\ rvPc = "idle"
    /\ rvResult = NoResult

Init ==
    /\ strategy \in Strategies
    /\ ConnInit
    /\ HdrIdle
    /\ LenIdle
    /\ EintrIdle


(***************************************************************************)
(* Part 4.  The socket, __recvMessage and __sendMessage                    *)
(***************************************************************************)

IsClosed(c, fd) == fd \in closed[c]
PeerGone(c) == "sock" \in closed[Peer(c)]

\* A mutant of the socket's readiness: the peer's close is not a readable
\* event, only unread bytes are.
SockReadable_noEof(c) == sockIn[c] # << >>

\* The socket has bytes to recv, or the peer closed its end (end of stream).
SockReadable(c) == sockIn[c] # << >> \/ PeerGone(c)
\* The socket would take bytes (or fail at once because the peer is gone).
SockWritable(c) == Len(sockIn[Peer(c)]) < SockCap \/ PeerGone(c)

\* sock.recv(n) on an open non-blocking socket whose unread bytes are buf.
sockRecv(c, buf, n) ==
    IF buf # << >>
    THEN [kind |-> "data", bytes |-> Take(buf, n), rest |-> Drop(buf, n)]
    ELSE IF PeerGone(c)
         THEN [kind |-> "eof", bytes |-> << >>, rest |-> buf]
         ELSE [kind |-> "eagain", bytes |-> << >>, rest |-> buf]

\* A mutant of the payload recv: it asks the socket for the whole announced
\* length, whatever part of the payload _iBuffer already holds.
recvPayload_wholeLength(c, st) ==
    LET r == sockRecv(c, st.sockIn, st.iBufferLen)
    IN  IF r.kind = "eagain" THEN st
        ELSE LET buf == st.iBuffer \o r.bytes
                 rv  == (r.bytes # << >>) \/ st.retval
             IN  IF Len(buf) = st.iBufferLen /\ ~IsClosed(c, "usOut")
                 THEN [iBuffer |-> << >>, iBufferLen |-> 0, sockIn |-> r.rest,
                       out |-> << buf >>, retval |-> rv, raised |-> "none"]
                 ELSE [st EXCEPT !.iBuffer = buf, !.sockIn = r.rest, !.retval = rv]

\* Lines 295-305: recv the payload; a complete message goes to _usOut.
recvPayload(c, st) ==
    LET r == sockRecv(c, st.sockIn, st.iBufferLen - Len(st.iBuffer))
    IN  IF r.kind = "eagain" THEN st
        ELSE LET buf == st.iBuffer \o r.bytes
                 rv  == (r.bytes # << >>) \/ st.retval
             IN  IF Len(buf) = st.iBufferLen
                 THEN IF IsClosed(c, "usOut")
                      THEN [st EXCEPT !.iBuffer = buf, !.sockIn = r.rest,
                                      !.retval = rv, !.raised = "HandleClosed"]
                      ELSE [iBuffer |-> << >>, iBufferLen |-> 0, sockIn |-> r.rest,
                            out |-> << buf >>, retval |-> rv, raised |-> "none"]
                 ELSE [st EXCEPT !.iBuffer = buf, !.sockIn = r.rest, !.retval = rv]

\* A mutant of __recvMessage: the message is handed over as soon as any
\* payload byte is there.
recvMessage_early(c) ==
    LET st0 == [iBuffer |-> iBuffer[c], iBufferLen |-> iBufferLen[c],
                sockIn |-> sockIn[c], out |-> << >>, retval |-> FALSE,
                raised |-> "none"]
        st1 == IF st0.iBufferLen = 0
               THEN LET r == sockRecv(c, sockIn[c], headerLen - Len(iBuffer[c]))
                        buf == iBuffer[c] \o r.bytes
                    IN  IF Len(buf) = headerLen
                        THEN [st0 EXCEPT !.iBuffer = << >>, !.sockIn = r.rest,
                                         !.iBufferLen = deserializeMessageLength(buf),
                                         !.retval = TRUE]
                        ELSE [st0 EXCEPT !.iBuffer = buf, !.sockIn = r.rest,
                                         !.retval = r.bytes # << >>]
               ELSE st0
        r2 == sockRecv(c, st1.sockIn, st1.iBufferLen - Len(st1.iBuffer))
    IN  IF IsClosed(c, "sock") THEN [st0 EXCEPT !.raised = "EBADF"]
        ELSE IF st1.iBufferLen = 0 \/ r2.kind # "data" THEN st1
        ELSE [iBuffer |-> << >>, iBufferLen |-> 0, sockIn |-> r2.rest,
              out |-> << st1.iBuffer \o r2.bytes >>, retval |-> TRUE,
              raised |-> "none"]

\* Connection.__recvMessage(): the new _iBuffer, _iBufferLen and unread socket
\* bytes, the message handed to _usOut (if any), the value returned, and the
\* error raised (if any).  Only EAGAIN is masked.
recvMessage(c) ==
    LET st0 == [iBuffer |-> iBuffer[c], iBufferLen |-> iBufferLen[c],
                sockIn |-> sockIn[c], out |-> << >>, retval |-> FALSE,
                raised |-> "none"]
    IN  IF IsClosed(c, "sock") THEN [st0 EXCEPT !.raised = "EBADF"]
        ELSE IF st0.iBufferLen = 0
        THEN LET r == sockRecv(c, sockIn[c], headerLen - Len(iBuffer[c]))
             IN  IF r.kind = "eagain" THEN st0
                 ELSE LET buf == iBuffer[c] \o r.bytes
                          rv  == r.bytes # << >>
                      IN  IF Len(buf) = headerLen
                          THEN recvPayload(c,
                                 [st0 EXCEPT !.iBuffer = << >>,
                                             !.iBufferLen = deserializeMessageLength(buf),
                                             !.sockIn = r.rest, !.retval = rv])
                          ELSE [st0 EXCEPT !.iBuffer = buf, !.sockIn = r.rest,
                                           !.retval = rv]
        ELSE recvPayload(c, st0)

\* What a send to a peer that closed its socket can give.
SendFates == {"ok", "ECONNRESET", "EPIPE"}

\* A mutant of __sendMessage: the next message is taken from the pipe although
\* _oBuffer still holds unsent bytes, which are lost.
sendMessage_overwrite(c, k, fate) ==
    LET polled == outPipe[c] # << >> /\ ~IsClosed(c, "usIn")
        buf    == IF polled THEN Head(outPipe[c]) ELSE oBuffer[c]
        pipe   == IF polled THEN Tail(outPipe[c]) ELSE outPipe[c]
        base   == [oBuffer |-> buf, outPipe |-> pipe, wire |-> << >>,
                   raised |-> "none", sentOK |-> FALSE]
    IN  IF buf = << >> \/ IsClosed(c, "sock") \/ PeerGone(c)
           \/ Len(sockIn[Peer(c)]) >= SockCap
        THEN base
        ELSE [base EXCEPT !.oBuffer = Drop(buf, k), !.wire = Take(buf, k),
                          !.sentOK = TRUE]

\* A mutant of __sendMessage: the next message is taken from _usIn whenever
\* one is there and joined to what _oBuffer still holds.
sendMessage_dequeueEarly(c, k, fate) ==
    LET polled == ~IsClosed(c, "usIn") /\ outPipe[c] # << >>
        buf    == IF polled THEN oBuffer[c] \o Head(outPipe[c]) ELSE oBuffer[c]
        pipe   == IF polled THEN Tail(outPipe[c]) ELSE outPipe[c]
        base   == [oBuffer |-> buf, outPipe |-> pipe, wire |-> << >>,
                   raised |-> "none", sentOK |-> FALSE]
    IN  IF buf = << >> \/ IsClosed(c, "sock") \/ PeerGone(c)
           \/ Len(sockIn[Peer(c)]) >= SockCap
        THEN base
        ELSE [base EXCEPT !.oBuffer = Drop(buf, k), !.wire = Take(buf, k),
                          !.sentOK = TRUE]

\* Connection.__sendMessage() without its poller calls: the new _oBuffer and
\* pipe, the bytes the socket took, the error raised (if any), and whether
\* sock.send returned (sentOK).  k is the number of bytes send accepts and
\* fate what happens when the peer is gone.  Only EAGAIN is masked.
sendMessage(c, k, fate) ==
    LET empty  == oBuffer[c] = << >>
        polled == empty /\ ~IsClosed(c, "usIn") /\ outPipe[c] # << >>
        buf    == IF polled THEN Head(outPipe[c]) ELSE oBuffer[c]
        pipe   == IF polled THEN Tail(outPipe[c]) ELSE outPipe[c]
        base   == [oBuffer |-> buf, outPipe |-> pipe, wire |-> << >>,
                   raised |-> "none", sentOK |-> FALSE]
    IN  IF empty /\ IsClosed(c, "usIn")
        THEN [base EXCEPT !.raised = "HandleClosed"]
        ELSE IF buf = << >> THEN base
        ELSE IF IsClosed(c, "sock") THEN [base EXCEPT !.raised = "EBADF"]
        ELSE IF PeerGone(c)
             THEN IF fate = "ok"
                  THEN [base EXCEPT !.oBuffer = Drop(buf, k), !.sentOK = TRUE]
                  ELSE [base EXCEPT !.raised = fate]
        ELSE IF Len(sockIn[Peer(c)]) >= SockCap THEN base
        ELSE [base EXCEPT !.oBuffer = Drop(buf, k), !.wire = Take(buf, k),
                          !.sentOK = TRUE]

\* The choices of (k, fate) that are distinct outcomes of a send in this state.
SendChoice(c, k, fate) ==
    LET buf  == IF oBuffer[c] = << >> /\ ~IsClosed(c, "usIn") /\ outPipe[c] # << >>
                THEN Head(outPipe[c]) ELSE oBuffer[c]
        free == SockCap - Len(sockIn[Peer(c)])
        sends == buf # << >> /\ ~IsClosed(c, "sock")
                 /\ ~(oBuffer[c] = << >> /\ IsClosed(c, "usIn"))
    IN  IF ~sends THEN k = 1 /\ fate = "ok"
        ELSE IF PeerGone(c) THEN k <= Len(buf) /\ (fate # "ok" => k = 1)
        ELSE fate = "ok" /\ (IF free <= 0 THEN k = 1 ELSE k <= Len(buf) /\ k <= free)


(***************************************************************************)
(* Part 5.  __signalClose, the handshake thread and the worker's run()     *)
(***************************************************************************)

\* The statements of Connection.__signalClose, in order.
signalCloseOrder == << "active", "parentOut", "usOut", "usIn", "sock" >>

\* A mutant of __signalClose: its last statement, self.sock.close(), is
\* missing.
signalCloseStmt_noSock(c, k) ==
    /\ active' = IF k = 1 THEN [active EXCEPT ![c] = FALSE] ELSE active
    /\ closed' = IF k \in 2..4 THEN [closed EXCEPT ![c] = @ \cup {signalCloseOrder[k]}]
                 ELSE closed
    /\ UNCHANGED sockIn

\* A mutant of __signalClose: it closes _parentIn along with _parentOut.
signalCloseStmt_parentIn(c, k) ==
    /\ active' = IF k = 1 THEN [active EXCEPT ![c] = FALSE] ELSE active
    /\ closed' = IF k > 1
                 THEN [closed EXCEPT ![c] = @ \cup {signalCloseOrder[k]}
                                             \cup (IF k = 2 THEN {"parentIn"} ELSE {})]
                 ELSE closed
    /\ sockIn' = IF k = 5 THEN [sockIn EXCEPT ![c] = << >>] ELSE sockIn

\* A mutant of __signalClose: its first statement flips self.active.
signalCloseStmt_toggle(c, k) ==
    /\ active' = IF k = 1 THEN [active EXCEPT ![c] = ~@] ELSE active
    /\ closed' = IF k > 1 THEN [closed EXCEPT ![c] = @ \cup {signalCloseOrder[k]}]
                 ELSE closed
    /\ sockIn' = IF k = 5 THEN [sockIn EXCEPT ![c] = << >>] ELSE sockIn

\* Statement k of __signalClose on connection c.  Every close() call of the
\* code (pipe end, socket) is harmless on a closed object.  Closing the socket
\* discards what it had not recv'd.
signalCloseStmt(c, k) ==
    /\ active' = IF k = 1 THEN [active EXCEPT ![c] = FALSE] ELSE active
    /\ closed' = IF k > 1 THEN [closed EXCEPT ![c] = @ \cup {signalCloseOrder[k]}]
                 ELSE closed
    /\ sockIn' = IF k = 5 THEN [sockIn EXCEPT ![c] = << >>] ELSE sockIn

\* The errors each run() swallows in its except clauses.
Swallowed ==
    [Connection     |-> {"EBADF"},
     PollStocking   |-> {"EBADF", "ECONNRESET", "ECONNABORTED"},
     SelectStocking |-> {"EBADF"}]

\* The worker moves on in run(); entering the finally clause starts
\* __signalClose.
Goto(c, pc) ==
    /\ wpc' = [wpc EXCEPT ![c] = pc]
    /\ sc' = IF pc = "finally" THEN [sc EXCEPT ![c].worker = 1] ELSE sc

\* A mutant of run(): an error that is not swallowed ends the thread at once,
\* as if the release were not in a finally clause.
Raise_noFinally(c, err) ==
    /\ wpc' = [wpc EXCEPT ![c] = IF err \in Swallowed[strategy] THEN "finally" ELSE "done"]
    /\ sc' = IF err \in Swallowed[strategy] THEN [sc EXCEPT ![c].worker = 1] ELSE sc
    /\ werr' = [werr EXCEPT ![c] = IF err \in Swallowed[strategy] THEN @ ELSE err]

\* An error is raised inside run()'s try: it is swallowed or it escapes; the
\* finally clause runs either way.
Raise(c, err) ==
    /\ Goto(c, "finally")
    /\ werr' = [werr EXCEPT ![c] = IF err \in Swallowed[strategy] THEN @ ELSE err]

\* Connection.__handshake: a mutant that sets the flag whatever handshake() gives.
handshakeReturns_alwaysReady(c, r) ==
    /\ hs[c] = "running"
    /\ hsResult' = [hsResult EXCEPT ![c] = IF r THEN "True" ELSE "False"]
    /\ handshakeComplete' = [handshakeComplete EXCEPT ![c] = TRUE]
    /\ hs' = [hs EXCEPT ![c] = IF r THEN "done" ELSE "signalClose"]
    /\ sc' = IF r THEN sc ELSE [sc EXCEPT ![c].hs = 1]
    /\ UNCHANGED << hdrVars, strategy, active, closed, outPipe, inPipe, sockIn, iBuffer,
                    iBufferLen, oBuffer, registered, sockMask, wpc, events, werr,
                    ioLock, closes, lastCall, sent, recvd, delivered, wireLog >>

\* Connection.__handshake: a mutant that does not close on a negative result.
handshakeReturns_noClose(c, r) ==
    /\ hs[c] = "running"
    /\ hsResult' = [hsResult EXCEPT ![c] = IF r THEN "True" ELSE "False"]
    /\ handshakeComplete' = [handshakeComplete EXCEPT ![c] = r]
    /\ hs' = [hs EXCEPT ![c] = "done"]
    /\ UNCHANGED << hdrVars, strategy, active, closed, outPipe, inPipe, sockIn, iBuffer,
                    iBufferLen, oBuffer, registered, sockMask, wpc, events, werr,
                    sc, ioLock, closes, lastCall, sent, recvd, delivered, wireLog >>

\* Connection.__handshake, handshake() returns r: handshakeComplete = r, and
\* a negative result goes on to __signalClose.
handshakeReturns(c, r) ==
    /\ hs[c] = "running"
    /\ hsResult' = [hsResult EXCEPT ![c] = IF r THEN "True" ELSE "False"]
    /\ handshakeComplete' = [handshakeComplete EXCEPT ![c] = r]
    /\ hs' = [hs EXCEPT ![c] = IF r THEN "done" ELSE "signalClose"]
    /\ sc' = IF r THEN sc ELSE [sc EXCEPT ![c].hs = 1]
    /\ UNCHANGED << hdrVars, strategy, active, closed, outPipe, inPipe, sockIn, iBuffer,
                    iBufferLen, oBuffer, registered, sockMask, wpc, events, werr,
                    ioLock, closes, lastCall, sent, recvd, delivered, wireLog >>

\* Connection.__handshake, handshake() raises: __signalClose, then re-raise.
handshakeRaises(c) ==
    /\ hs[c] = "running"
    /\ hsResult' = [hsResult EXCEPT ![c] = "raised"]
    /\ hs' = [hs EXCEPT ![c] = "signalClose"]
    /\ sc' = [sc EXCEPT ![c].hs = 1]
    /\ UNCHANGED << hdrVars, strategy, active, handshakeComplete, closed, outPipe, inPipe,
                    sockIn, iBuffer, iBufferLen, oBuffer, registered, sockMask, wpc,
                    events, werr, ioLock, closes, lastCall, sent, recvd, delivered,
                    wireLog >>

\* The handshake thread executes the next statement of __signalClose.
handshakeSignalClose(c) ==
    /\ hs[c] = "signalClose"
    /\ sc[c].hs \in 1..5
    /\ signalCloseStmt(c, sc[c].hs)
    /\ sc' = [sc EXCEPT ![c].hs = IF @ = 5 THEN 0 ELSE @ + 1]
    /\ hs' = [hs EXCEPT ![c] = IF sc[c].hs = 5 THEN "done" ELSE @]
    /\ UNCHANGED << hdrVars, strategy, handshakeComplete, hsResult, outPipe, inPipe, iBuffer,
                    iBufferLen, oBuffer, registered, sockMask, wpc, events, werr,
                    ioLock, closes, lastCall, sent, recvd, delivered, wireLog >>

\* A mutant of run(): the handshake thread is created but never started.
runStart_noHandshake(c) ==
    /\ wpc[c] = "start"
    /\ Goto(c, IF strategy = "SelectStocking" THEN "loop" ELSE "register")
    /\ UNCHANGED << hdrVars, strategy, active, handshakeComplete, hs, hsResult, closed, outPipe,
                    inPipe, sockIn, iBuffer, iBufferLen, oBuffer, registered,
                    sockMask, events, werr, ioLock, closes, lastCall, sent, recvd,
                    delivered, wireLog >>

\* run(): handshakeThread.start()
runStart(c) ==
    /\ wpc[c] = "start"
    /\ hs' = [hs EXCEPT ![c] = "running"]
    /\ Goto(c, IF strategy = "SelectStocking" THEN "loop" ELSE "register")
    /\ UNCHANGED << hdrVars, strategy, active, handshakeComplete, hsResult, closed, outPipe,
                    inPipe, sockIn, iBuffer, iBufferLen, oBuffer, registered,
                    sockMask, events, werr, ioLock, closes, lastCall, sent, recvd,
                    delivered, wireLog >>

\* The error the three register() calls raise, "none" if they succeed:
\* fileno() of a closed pipe end or socket raises.
registerError(c) ==
    IF IsClosed(c, "parentIn") THEN "HandleClosed"
    ELSE IF IsClosed(c, "sock") THEN "EBADF"
    ELSE IF IsClosed(c, "usIn") THEN "HandleClosed"
    ELSE "none"

\* run(): create the poller and register _parentIn, sock and _usIn.
\* PollStocking first enters `with self._ioLock:` and tests self.active; its
\* register calls follow in runRegisterLocked.
runRegister(c) ==
    /\ wpc[c] = "register"
    /\ IF strategy = "PollStocking"
       THEN /\ ~ioLock[c]
            /\ IF active[c]
               THEN Goto(c, "registering") /\ ioLock' = [ioLock EXCEPT ![c] = TRUE]
               ELSE Goto(c, "loop") /\ UNCHANGED ioLock
            /\ UNCHANGED << registered, sockMask, werr >>
       ELSE /\ IF registerError(c) # "none"
               THEN Raise(c, registerError(c)) /\ UNCHANGED << registered, sockMask >>
               ELSE /\ registered' = [registered EXCEPT ![c] = TRUE]
                    /\ sockMask' = [sockMask EXCEPT ![c] = "IN"]
                    /\ Goto(c, "loop")
                    /\ UNCHANGED werr
            /\ UNCHANGED ioLock
    /\ UNCHANGED << hdrVars, strategy, active, handshakeComplete, hs, hsResult, closed, outPipe,
                    inPipe, sockIn, iBuffer, iBufferLen, oBuffer, events,
                    closes, lastCall, sent, recvd, delivered, wireLog >>

\* PollStocking.run(): the three register calls inside `with self._ioLock:`;
\* the lock is released when the block is left, by an error too.
runRegisterLocked(c) ==
    /\ wpc[c] = "registering"
    /\ ioLock' = [ioLock EXCEPT ![c] = FALSE]
    /\ IF registerError(c) # "none"
       THEN Raise(c, registerError(c)) /\ UNCHANGED << registered, sockMask >>
       ELSE /\ registered' = [registered EXCEPT ![c] = TRUE]
            /\ sockMask' = [sockMask EXCEPT ![c] = "IN"]
            /\ Goto(c, "loop")
            /\ UNCHANGED werr
    /\ UNCHANGED << hdrVars, strategy, active, handshakeComplete, hs, hsResult, closed, outPipe,
                    inPipe, sockIn, iBuffer, iBufferLen, oBuffer, events,
                    closes, lastCall, sent, recvd, delivered, wireLog >>

\* run(): while self.active
runWhile(c) ==
    /\ wpc[c] = "loop"
    /\ Goto(c, IF ~active[c] THEN "finally"
               ELSE IF strategy = "SelectStocking" THEN "select" ELSE "poll")
    /\ UNCHANGED << hdrVars, strategy, active, handshakeComplete, hs, hsResult, closed, outPipe,
                    inPipe, sockIn, iBuffer, iBufferLen, oBuffer, registered,
                    sockMask, events, werr, ioLock, closes, lastCall, sent, recvd,
                    delivered, wireLog >>


\* The longest chunk one send can take: a whole framed message.
MaxChunk == headerLen + MaxLen

\* A mutant of poll(): hang-ups and invalid descriptors are not reported.
ReadyEvents_noHup(c) ==
    (IF ~IsClosed(c, "sock") /\ SockReadable(c) THEN {<< "sock", {"IN"} >>} ELSE {})
    \cup
    (IF ~IsClosed(c, "usIn") /\ outPipe[c] # << >> THEN {<< "usIn", {"IN"} >>} ELSE {})

\* What poll() reports for the three registered descriptors.  POLLHUP and
\* POLLNVAL are reported whether asked for or not: a pipe's read end hangs up
\* once its write end is closed, a closed descriptor is invalid.
ReadyEvents(c) ==
    LET sockBits == (IF SockReadable(c) THEN {"IN"} ELSE {})
                    \cup (IF sockMask[c] = "INOUT" /\ SockWritable(c)
                          THEN {"OUT"} ELSE {})
        usInBits == (IF outPipe[c] # << >> THEN {"IN"} ELSE {})
                    \cup (IF IsClosed(c, "parentOut") THEN {"HUP"} ELSE {})
    IN  (IF IsClosed(c, "parentIn") THEN {<< "parentIn", {"NVAL"} >>}
         ELSE IF IsClosed(c, "usOut") THEN {<< "parentIn", {"HUP"} >>} ELSE {})
        \cup
        (IF IsClosed(c, "sock") THEN {<< "sock", {"NVAL"} >>}
         ELSE IF sockBits # {} THEN {<< "sock", sockBits >>} ELSE {})
        \cup
        (IF IsClosed(c, "usIn") THEN {<< "usIn", {"NVAL"} >>}
         ELSE IF usInBits # {} THEN {<< "usIn", usInBits >>} ELSE {})

\* run(): self._poller.poll() blocks until a registered descriptor is ready.
runPoll(c) ==
    /\ wpc[c] = "poll"
    /\ registered[c]
    /\ ReadyEvents(c) # {}
    /\ events' = [events EXCEPT ![c] = ReadyEvents(c)]
    /\ Goto(c, "dispatch")
    /\ UNCHANGED << hdrVars, strategy, active, handshakeComplete, hs, hsResult, closed, outPipe,
                    inPipe, sockIn, iBuffer, iBufferLen, oBuffer, registered,
                    sockMask, werr, ioLock, closes, lastCall, sent, recvd,
                    delivered, wireLog >>

\* if not self.__recvMessage(): return -- then on to `next`.
Recv(c, next) ==
    LET r == recvMessage(c)
    IN  /\ iBuffer' = [iBuffer EXCEPT ![c] = r.iBuffer]
        /\ iBufferLen' = [iBufferLen EXCEPT ![c] = r.iBufferLen]
        /\ sockIn' = [sockIn EXCEPT ![c] = r.sockIn]
        /\ inPipe' = [inPipe EXCEPT ![c] = @ \o r.out]
        /\ delivered' = [delivered EXCEPT ![c] = @ \o r.out]
        /\ IF r.raised # "none" THEN Raise(c, r.raised)
           ELSE Goto(c, IF r.retval THEN next ELSE "finally") /\ UNCHANGED werr
        /\ UNCHANGED << oBuffer, outPipe, wireLog, sockMask >>

\* A mutant of PollStocking._pollSendMessage: it re-registers only after a
\* send that went through, as Connection.__sendMessage does.
registerAfterSend_onlyIfSent(c, r) ==
    [mask |-> IF ~r.sentOK THEN sockMask[c]
              ELSE IF r.oBuffer # << >> THEN "INOUT" ELSE "IN",
     raised |-> r.raised]

\* The poller call that follows a send: Connection.__sendMessage re-registers
\* inside its try, after sock.send returned; PollStocking._pollSendMessage
\* after _sendMessage returned; SelectStocking has no poller.
registerAfterSend(c, r) ==
    IF strategy = "Connection"
    THEN [mask |-> IF ~r.sentOK THEN sockMask[c]
                   ELSE IF r.oBuffer # << >> THEN "INOUT" ELSE "IN",
          raised |-> r.raised]
    ELSE IF strategy = "PollStocking" /\ r.raised = "none"
    THEN IF IsClosed(c, "sock") THEN [mask |-> sockMask[c], raised |-> "EBADF"]
         ELSE [mask |-> IF r.oBuffer # << >> THEN "INOUT" ELSE "IN", raised |-> "none"]
    ELSE [mask |-> sockMask[c], raised |-> r.raised]

\* self.__sendMessage() / self._pollSendMessage() -- then on to `next`.
Send(c, next) ==
    \E k \in 1..MaxChunk, fate \in SendFates :
        /\ SendChoice(c, k, fate)
        /\ LET r == sendMessage(c, k, fate)
               g == registerAfterSend(c, r)
           IN  /\ oBuffer' = [oBuffer EXCEPT ![c] = r.oBuffer]
               /\ outPipe' = [outPipe EXCEPT ![c] = r.outPipe]
               /\ sockIn' = [sockIn EXCEPT ![Peer(c)] = @ \o r.wire]
               /\ wireLog' = [wireLog EXCEPT ![c] = @ \o r.wire]
               /\ sockMask' = [sockMask EXCEPT ![c] = g.mask]
               /\ IF g.raised # "none" THEN Raise(c, g.raised)
                  ELSE Goto(c, next) /\ UNCHANGED werr
               /\ UNCHANGED << iBuffer, iBufferLen, inPipe, delivered >>

\* run(): the body of `for fd, eventMask in ...` for one returned event.
runEvent(c) ==
    /\ wpc[c] = "dispatch"
    /\ \E e \in events[c] :
        /\ events' = [events EXCEPT ![c] = @ \ {e}]
        /\ IF "IN" \in e[2]
           THEN IF IsClosed(c, "sock")
                THEN Raise(c, "EBADF")
                     /\ UNCHANGED << iBuffer, iBufferLen, sockIn, inPipe, delivered,
                                     oBuffer, outPipe, wireLog, sockMask >>
                ELSE IF e[1] = "sock" THEN Recv(c, "dispatch")
                ELSE IF IsClosed(c, "usIn")
                THEN (IF strategy = "PollStocking"
                      THEN Goto(c, "dispatch") /\ UNCHANGED werr
                      ELSE Raise(c, "HandleClosed"))
                     /\ UNCHANGED << iBuffer, iBufferLen, sockIn, inPipe, delivered,
                                     oBuffer, outPipe, wireLog, sockMask >>
                ELSE Send(c, "dispatch")
           ELSE IF "OUT" \in e[2] THEN Send(c, "dispatch")
           ELSE /\ Goto(c, IF "HUP" \in e[2] THEN "finally" ELSE "dispatch")
                /\ UNCHANGED << iBuffer, iBufferLen, sockIn, inPipe, delivered,
                                oBuffer, outPipe, wireLog, sockMask, werr >>
    /\ UNCHANGED << hdrVars, strategy, active, handshakeComplete, hs, hsResult, closed,
                    registered, ioLock, closes, lastCall, sent, recvd >>

\* run(): the for loop over the returned events is exhausted.
runEventsDone(c) ==
    /\ wpc[c] = "dispatch"
    /\ events[c] = {}
    /\ Goto(c, "loop")
    /\ UNCHANGED << hdrVars, strategy, active, handshakeComplete, hs, hsResult, closed, outPipe,
                    inPipe, sockIn, iBuffer, iBufferLen, oBuffer, registered,
                    sockMask, events, werr, ioLock, closes, lastCall, sent, recvd,
                    delivered, wireLog >>

\* _Stocking._checkReadablePipe(self._usIn): the pipe has a message to take.
checkReadablePipe(c) == ~IsClosed(c, "usIn") /\ outPipe[c] # << >>

\* SelectStocking.run(): build the lists and select.select(..., SEND_INTERVAL);
\* it returns what is ready, or nothing after the interval.  A closed socket
\* makes it fail (ValueError: break; EBADF: swallowed): on to finally.
runSelect(c) ==
    /\ wpc[c] = "select"
    /\ IF IsClosed(c, "sock")
       THEN Goto(c, "finally") /\ UNCHANGED events
       ELSE /\ events' = [events EXCEPT ![c] =
                  (IF SockReadable(c) THEN {<< "sock", {"IN"} >>} ELSE {})
                  \cup (IF (oBuffer[c] # << >> \/ checkReadablePipe(c)) /\ SockWritable(c)
                        THEN {<< "sock", {"OUT"} >>} ELSE {})]
            /\ Goto(c, "selectRecv")
    /\ UNCHANGED << hdrVars, strategy, active, handshakeComplete, hs, hsResult, closed, outPipe,
                    inPipe, sockIn, iBuffer, iBufferLen, oBuffer, registered,
                    sockMask, werr, ioLock, closes, lastCall, sent, recvd,
                    delivered, wireLog >>

\* SelectStocking.run(): if readable: if not self._recvMessage(): return
runSelectRecv(c) ==
    /\ wpc[c] = "selectRecv"
    /\ IF << "sock", {"IN"} >> \in events[c]
       THEN Recv(c, "selectSend")
       ELSE /\ Goto(c, "selectSend")
            /\ UNCHANGED << iBuffer, iBufferLen, sockIn, inPipe, delivered,
                            oBuffer, outPipe, wireLog, sockMask, werr >>
    /\ UNCHANGED << hdrVars, strategy, active, handshakeComplete, hs, hsResult, closed,
                    registered, events, ioLock, closes, lastCall, sent, recvd >>

\* SelectStocking.run(): if writable or len(self._oBuffer) or
\* self._checkReadablePipe(self._usIn): self._sendMessage()
runSelectSend(c) ==
    /\ wpc[c] = "selectSend"
    /\ events' = [events EXCEPT ![c] = {}]
    /\ IF << "sock", {"OUT"} >> \in events[c] \/ oBuffer[c] # << >>
          \/ checkReadablePipe(c)
       THEN Send(c, "loop")
       ELSE /\ Goto(c, "loop")
            /\ UNCHANGED << iBuffer, iBufferLen, sockIn, inPipe, delivered,
                            oBuffer, outPipe, wireLog, sockMask, werr >>
    /\ UNCHANGED << hdrVars, strategy, active, handshakeComplete, hs, hsResult, closed,
                    registered, ioLock, closes, lastCall, sent, recvd >>

\* run(): finally: self.__signalClose(), one statement at a time; then the
\* thread ends.
runFinally(c) ==
    /\ wpc[c] = "finally"
    /\ sc[c].worker \in 1..5
    /\ signalCloseStmt(c, sc[c].worker)
    /\ sc' = [sc EXCEPT ![c].worker = IF @ = 5 THEN 0 ELSE @ + 1]
    /\ wpc' = [wpc EXCEPT ![c] = IF sc[c].worker = 5 THEN "done" ELSE @]
    /\ UNCHANGED << hdrVars, strategy, handshakeComplete, hs, hsResult, outPipe, inPipe,
                    iBuffer, iBufferLen, oBuffer, registered, sockMask, events, werr,
                    ioLock, closes, lastCall, sent, recvd, delivered, wireLog >>


(***************************************************************************)
(* Part 6.  The owner's API: read(), write(), close()                      *)
(***************************************************************************)

\* The owner's call `op` on connection c raised exc.
Raised(c, op, exc) == [conn |-> c, op |-> op, exc |-> exc]

\* A mutant of read(): no handshake gate.
read_noGate(c) ==
    /\ sc[c].owner = 0
    /\ IF active[c] /\ ~IsClosed(c, "parentIn") /\ inPipe[c] # << >>
       THEN /\ inPipe' = [inPipe EXCEPT ![c] = Tail(@)]
            /\ recvd' = [recvd EXCEPT ![c] = Append(@, Head(inPipe[c]))]
            /\ lastCall' = Returned
       ELSE /\ lastCall' = Returned
            /\ UNCHANGED << inPipe, recvd >>
    /\ UNCHANGED << hdrVars, strategy, active, handshakeComplete, hs, hsResult, closed, outPipe,
                    sockIn, iBuffer, iBufferLen, oBuffer, registered, sockMask, wpc,
                    events, werr, sc, ioLock, closes, sent, delivered, wireLog >>

\* A mutant of read(): _read does not test self.active, so what the worker
\* left in the pipe can still be read once the connection is inactive.
read_ignoresActive(c) ==
    /\ sc[c].owner = 0
    /\ IF ~handshakeComplete[c]
       THEN /\ lastCall' = Raised(c, "read", "NotReady")
            /\ UNCHANGED << inPipe, recvd >>
       ELSE IF inPipe[c] # << >>
       THEN /\ inPipe' = [inPipe EXCEPT ![c] = Tail(@)]
            /\ recvd' = [recvd EXCEPT ![c] = Append(@, Head(inPipe[c]))]
            /\ lastCall' = Returned
       ELSE /\ lastCall' = Returned
            /\ UNCHANGED << inPipe, recvd >>
    /\ UNCHANGED << hdrVars, strategy, active, handshakeComplete, hs, hsResult, closed, outPipe,
                    sockIn, iBuffer, iBufferLen, oBuffer, registered, sockMask, wpc,
                    events, werr, sc, ioLock, closes, sent, delivered, wireLog >>

\* Connection.read(): NotReady before the handshake completed; else _read():
\* the next message of _parentIn if self.active and one is there, else None.
\* postRead is the identity.
read(c) ==
    /\ sc[c].owner = 0
    /\ IF ~handshakeComplete[c]
       THEN /\ lastCall' = Raised(c, "read", "NotReady")
            /\ UNCHANGED << inPipe, recvd >>
       ELSE IF active[c] /\ inPipe[c] # << >>
       THEN /\ inPipe' = [inPipe EXCEPT ![c] = Tail(@)]
            /\ recvd' = [recvd EXCEPT ![c] = Append(@, Head(inPipe[c]))]
            /\ lastCall' = Returned
       ELSE /\ lastCall' = Returned
            /\ UNCHANGED << inPipe, recvd >>
    /\ UNCHANGED << hdrVars, strategy, active, handshakeComplete, hs, hsResult, closed, outPipe,
                    sockIn, iBuffer, iBufferLen, oBuffer, registered, sockMask, wpc,
                    events, werr, sc, ioLock, closes, sent, delivered, wireLog >>

\* A mutant of _write: an empty message is queued like any other, as a
\* header with no payload.
writeMax_queueEmpty(c, msg, limit, max) ==
    /\ sc[c].owner = 0
    /\ Len(sent[c]) < limit
    /\ IF ~handshakeComplete[c]
       THEN /\ lastCall' = Raised(c, "write", "NotReady")
            /\ UNCHANGED << outPipe, sent >>
       ELSE IF Len(msg) > max
       THEN /\ lastCall' = Raised(c, "write", "Exception")
            /\ UNCHANGED << outPipe, sent >>
       ELSE IF active[c]
       THEN /\ outPipe' = [outPipe EXCEPT ![c] =
                              Append(@, IF msg = << >> THEN ljust(<< >>, headerLen)
                                        ELSE Frame(msg))]
            /\ sent' = [sent EXCEPT ![c] = Append(@, msg)]
            /\ lastCall' = Returned
       ELSE /\ lastCall' = WroteNothing(c)
            /\ UNCHANGED << outPipe, sent >>
    /\ UNCHANGED << hdrVars, strategy, active, handshakeComplete, hs, hsResult, closed, inPipe,
                    sockIn, iBuffer, iBufferLen, oBuffer, registered, sockMask, wpc,
                    events, werr, sc, ioLock, closes, recvd, delivered, wireLog >>

\* A mutant of _write: a message of exactly the maximum length is refused.
writeMax_offByOne(c, msg, limit, max) ==
    /\ sc[c].owner = 0
    /\ Len(sent[c]) < limit
    /\ IF ~handshakeComplete[c]
       THEN /\ lastCall' = Raised(c, "write", "NotReady")
            /\ UNCHANGED << outPipe, sent >>
       ELSE IF Len(msg) >= max
       THEN /\ lastCall' = Raised(c, "write", "Exception")
            /\ UNCHANGED << outPipe, sent >>
       ELSE IF active[c] /\ Len(msg) > 0
       THEN /\ outPipe' = [outPipe EXCEPT ![c] = Append(@, Frame(msg))]
            /\ sent' = [sent EXCEPT ![c] = Append(@, msg)]
            /\ lastCall' = Returned
       ELSE /\ lastCall' = WroteNothing(c)
            /\ UNCHANGED << outPipe, sent >>
    /\ UNCHANGED << hdrVars, strategy, active, handshakeComplete, hs, hsResult, closed, inPipe,
                    sockIn, iBuffer, iBufferLen, oBuffer, registered, sockMask, wpc,
                    events, werr, sc, ioLock, closes, recvd, delivered, wireLog >>

\* Connection.write(msg) of a connection constructed with maxMsgLen = max, at
\* most `limit` queued messages: NotReady before the handshake completed;
\* else _write(): an over-long message raises, a message is queued (header,
\* then payload) if self.active and it is not empty.  preWrite is the
\* identity.
writeMax(c, msg, limit, max) ==
    /\ sc[c].owner = 0
    /\ Len(sent[c]) < limit
    /\ IF ~handshakeComplete[c]
       THEN /\ lastCall' = Raised(c, "write", "NotReady")
            /\ UNCHANGED << outPipe, sent >>
       ELSE IF Len(msg) > max
       THEN /\ lastCall' = Raised(c, "write", "Exception")
            /\ UNCHANGED << outPipe, sent >>
       ELSE IF active[c] /\ Len(msg) > 0
       THEN /\ outPipe' = [outPipe EXCEPT ![c] = Append(@, Frame(msg))]
            /\ sent' = [sent EXCEPT ![c] = Append(@, msg)]
            /\ lastCall' = Returned
       ELSE /\ lastCall' = WroteNothing(c)
            /\ UNCHANGED << outPipe, sent >>
    /\ UNCHANGED << hdrVars, strategy, active, handshakeComplete, hs, hsResult, closed, inPipe,
                    sockIn, iBuffer, iBufferLen, oBuffer, registered, sockMask, wpc,
                    events, werr, sc, ioLock, closes, recvd, delivered, wireLog >>

\* Connection.write(msg) of a connection constructed with the default
\* maxMsgLen.
write(c, msg, limit) == writeMax(c, msg, limit, maxMsgLen)

\* A mutant of _Stocking.close(): it does not take _ioLock.
closeTakesLock_never == FALSE

\* _Stocking.close() holds _ioLock, the guard of PollStocking.run()'s
\* registration; Connection.close() has no lock.
closeTakesLock == strategy # "Connection"

\* Connection.close() is entered: __signalClose comes first.
close(c) ==
    /\ sc[c].owner = 0
    /\ closes[c] < MaxCloses
    /\ closeTakesLock => ~ioLock[c]
    /\ sc' = [sc EXCEPT ![c].owner = 1]
    /\ ioLock' = [ioLock EXCEPT ![c] = closeTakesLock]
    /\ UNCHANGED << hdrVars, strategy, active, handshakeComplete, hs, hsResult, closed, outPipe,
                    inPipe, sockIn, iBuffer, iBufferLen, oBuffer, registered,
                    sockMask, wpc, events, werr, closes, lastCall, sent, recvd,
                    delivered, wireLog >>

\* Connection.close(): the next statement of self.__signalClose().
closeSignalClose(c) ==
    /\ sc[c].owner \in 1..5
    /\ signalCloseStmt(c, sc[c].owner)
    /\ sc' = [sc EXCEPT ![c].owner = @ + 1]
    /\ UNCHANGED << hdrVars, strategy, handshakeComplete, hs, hsResult, outPipe, inPipe,
                    iBuffer, iBufferLen, oBuffer, registered, sockMask, wpc, events,
                    werr, ioLock, closes, lastCall, sent, recvd, delivered, wireLog >>

\* Connection.close(): self._parentIn.close(), and close() returns.
closeParentIn(c) ==
    /\ sc[c].owner = 6
    /\ closed' = [closed EXCEPT ![c] = @ \cup {"parentIn"}]
    /\ sc' = [sc EXCEPT ![c].owner = 0]
    /\ ioLock' = [ioLock EXCEPT ![c] = FALSE]
    /\ closes' = [closes EXCEPT ![c] = @ + 1]
    /\ lastCall' = Returned
    /\ UNCHANGED << hdrVars, strategy, active, handshakeComplete, hs, hsResult, outPipe, inPipe,
                    sockIn, iBuffer, iBufferLen, oBuffer, registered, sockMask, wpc,
                    events, werr, sent, recvd, delivered, wireLog >>

(***************************************************************************)
(* Part 7.  The remote endpoint as an environment                          *)
(***************************************************************************)

\* In Spec the second end of the socket pair is a remote process of which
\* only the socket is seen: it sends framed messages in chunks, takes what
\* was sent to it, and may close its socket.  Its side of the state uses
\* index Remote of sent, oBuffer, wireLog, sockIn and closed.
Local == Peer(2)
Remote == Peer(Local)

\* Messages the remote sends.
MaxRemoteMsgs == 2
\* Bytes the local socket holds unread when the remote feeds it.
FeedCap == 6

\* The remote application queues a message for its socket.
remoteWrite(msg) ==
    /\ ~IsClosed(Remote, "sock")
    /\ oBuffer[Remote] = << >>
    /\ Len(sent[Remote]) < MaxRemoteMsgs
    /\ Len(msg) > 0
    /\ sent' = [sent EXCEPT ![Remote] = Append(@, msg)]
    /\ oBuffer' = [oBuffer EXCEPT ![Remote] = Frame(msg)]
    /\ UNCHANGED << hdrVars, strategy, active, handshakeComplete, hs, hsResult, closed, outPipe,
                    inPipe, sockIn, iBuffer, iBufferLen, registered, sockMask, wpc,
                    events, werr, sc, ioLock, closes, lastCall, recvd, delivered,
                    wireLog >>

\* k more bytes of the remote's message reach the local socket (they are
\* dropped if the local socket is closed).
remoteSend(k) ==
    /\ ~IsClosed(Remote, "sock")
    /\ k <= Len(oBuffer[Remote])
    /\ k <= FeedCap - Len(sockIn[Local])
    /\ oBuffer' = [oBuffer EXCEPT ![Remote] = Drop(@, k)]
    /\ wireLog' = [wireLog EXCEPT ![Remote] = @ \o Take(oBuffer[Remote], k)]
    /\ sockIn' = IF IsClosed(Local, "sock") THEN sockIn
                 ELSE [sockIn EXCEPT ![Local] = @ \o Take(oBuffer[Remote], k)]
    /\ UNCHANGED << hdrVars, strategy, active, handshakeComplete, hs, hsResult, closed, outPipe,
                    inPipe, iBuffer, iBufferLen, registered, sockMask, wpc, events,
                    werr, sc, ioLock, closes, lastCall, sent, recvd, delivered >>

\* The remote takes the bytes sent to it.
remoteRecv ==
    /\ ~IsClosed(Remote, "sock")
    /\ sockIn[Remote] # << >>
    /\ sockIn' = [sockIn EXCEPT ![Remote] = << >>]
    /\ UNCHANGED << hdrVars, strategy, active, handshakeComplete, hs, hsResult, closed, outPipe,
                    inPipe, iBuffer, iBufferLen, oBuffer, registered, sockMask, wpc,
                    events, werr, sc, ioLock, closes, lastCall, sent, recvd,
                    delivered, wireLog >>

\* The remote closes its socket (or its process ends).
remoteClose ==
    /\ ~IsClosed(Remote, "sock")
    /\ closed' = [closed EXCEPT ![Remote] = @ \cup {"sock"}]
    /\ sockIn' = [sockIn EXCEPT ![Remote] = << >>]
    /\ oBuffer' = [oBuffer EXCEPT ![Remote] = << >>]
    /\ UNCHANGED << hdrVars, strategy, active, handshakeComplete, hs, hsResult, outPipe,
                    inPipe, iBuffer, iBufferLen, registered, sockMask, wpc, events,
                    werr, sc, ioLock, closes, lastCall, sent, recvd, delivered,
                    wireLog >>

(***************************************************************************)
(* Part 8.  Specifications                                                 *)
(***************************************************************************)

Worker(c) ==
    \/ runStart(c)
    \/ runRegister(c)
    \/ runRegisterLocked(c)
    \/ runWhile(c)
    \/ runPoll(c)
    \/ runEvent(c)
    \/ runEventsDone(c)
    \/ runSelect(c)
    \/ runSelectRecv(c)
    \/ runSelectSend(c)
    \/ runFinally(c)

Handshake(c) ==
    \/ \E r \in BOOLEAN : handshakeReturns(c, r)
    \/ handshakeRaises(c)
    \/ handshakeSignalClose(c)

Owner(c) ==
    \/ read(c)
    \/ \E msg \in Msgs : write(c, msg, MaxWritesLife)
    \/ close(c)
    \/ closeSignalClose(c)
    \/ closeParentIn(c)

Environment ==
    \/ remoteRecv
    \/ remoteClose

\* Spec: one connection with all its threads (worker, handshake, owner), any
\* handshake outcome, any close; the remote end is the environment.
Next ==
    \/ Worker(Local)
    \/ Handshake(Local)
    \/ Owner(Local)
    \/ Environment

Spec == Init /\ [][Next]_vars

\* SpecData: both ends are connections with the default handshake (which
\* returns True); the owners read and write and do not close.
DataWorker(c) ==
    \/ runStart(c)
    \/ runRegister(c)
    \/ runRegisterLocked(c)
    \/ runWhile(c)
    \/ runPoll(c)
    \/ runEvent(c)
    \/ runEventsDone(c)
    \/ runSelect(c)
    \/ runSelectRecv(c)
    \/ runSelectSend(c)

DataOwner(c) ==
    \/ read(c)
    \/ \E msg \in Msgs : write(c, msg, IF c = Local THEN MaxWrites ELSE MaxWritesPeer)

NextData ==
    \E c \in Conns :
        \/ DataWorker(c)
        \/ handshakeReturns(c, TRUE)
        \/ DataOwner(c)

SpecData == Init /\ [][NextData]_vars


(***************************************************************************)
(* Part 9.  SpecHdr: one MessageHeaders instance fed serialized headers    *)
(***************************************************************************)

\* Headers one instance parses after its first (reset() in between).
MaxUses == 2
\* The small lengths tried exhaustively.
MaxSmallLength == 4

\* Lengths tried: the small ones, and both sides of every header-width step
\* (6, 13, 20, 27 length bits) up to the largest 32-bit signed value.
HdrLengths ==
    (0..MaxSmallLength)
    \cup { 2^(6 + 7*k) - 1 : k \in 0..3 } \cup { 2^(6 + 7*k) : k \in 0..3 }
    \cup { 2^27 + 2^13 + 1, 2^30 + (2^30 - 1) }

\* The header being fed: serialize(type(msg), len(msg)).
hBytes == serialize(hTyp, hLength)

HdrInit ==
    /\ strategy = "Connection"
    /\ ConnInit
    /\ hTyp \in PyTypes
    /\ hLength \in HdrLengths
    /\ hInst = FreshHeaders
    /\ hFed = 0
    /\ hRets = << >>
    /\ hUses = 0
    /\ LenIdle
    /\ EintrIdle

\* messageHeaders.deserialize(chunk) with the next k bytes of the header.
hdrFeed(k) ==
    /\ hFed + k <= Len(hBytes)
    /\ LET r == deserialize(hInst, SubSeq(hBytes, hFed + 1, hFed + k))
       IN  /\ ~r.raised
           /\ hInst' = r.h
           /\ hRets' = Append(hRets, r.ret)
    /\ hFed' = hFed + k
    /\ UNCHANGED << hTyp, hLength, hUses >>
    /\ UNCHANGED << lenVars, eintrVars, connVars >>

\* messageHeaders.reset(), and the next header to parse is chosen.
hdrReset(typ, length) ==
    /\ hUses < MaxUses
    /\ hInst' = reset(hInst)
    /\ hTyp' = typ
    /\ hLength' = length
    /\ hFed' = 0
    /\ hRets' = << >>
    /\ hUses' = hUses + 1
    /\ UNCHANGED << lenVars, eintrVars, connVars >>

HdrNext ==
    \/ \E k \in 1..5 : hdrFeed(k)
    \/ \E typ \in PyTypes, length \in HdrLengths : hdrReset(typ, length)

SpecHdr == HdrInit /\ [][HdrNext]_vars

\* C4: header round trip.  Whenever a whole serialized header has been fed in
\* one deserialize call to an instance that is fresh or was just reset (also
\* after it has parsed other headers), the call returned True, getLength() is
\* the length that was serialized and getType() the tag of the class that was
\* serialized.
C4_RoundTrip ==
    (Len(hRets) = 1 /\ hFed = Len(hBytes)) =>
        /\ hRets[1] = TRUE
        /\ getLength(hInst) = hLength
        /\ getType(hInst) = TypeTag(hTyp)

\* C4 witness: a reused instance has parsed, in one call, the 5-byte header
\* of a bytes message.
C4_Witness ==
    /\ hUses >= 1
    /\ Len(hRets) = 1
    /\ hFed = Len(hBytes)
    /\ Len(hBytes) = 5
    /\ hTyp = "bytes"
    /\ getLength(hInst) = hLength

\* What a single deserialize call on a fresh instance gives for the header.
OneShot == deserialize(FreshHeaders, hBytes).h

\* C5: deserialize is incremental.  However the header's bytes are cut into
\* calls, every call before the one that feeds the terminal byte returned
\* False, that call returned True, and then length and type are those of
\* feeding the header in a single call.
C5_Incremental ==
    /\ \A i \in 1..Len(hRets) : hRets[i] = (i = Len(hRets) /\ hFed = Len(hBytes))
    /\ hFed = Len(hBytes) =>
          /\ getLength(hInst) = getLength(OneShot)
          /\ getType(hInst) = getType(OneShot)
    /\ hFed < Len(hBytes) => getLength(hInst) = None

\* C5 witness: a 3-byte header was fed one byte per call.
C5_Witness ==
    /\ Len(hBytes) = 3
    /\ Len(hRets) = 3
    /\ hFed = 3
    /\ hRets = << FALSE, FALSE, TRUE >>
    /\ getLength(hInst) = hLength


(***************************************************************************)
(* Part 10.  SpecFeed and the fair specification                           *)
(***************************************************************************)

\* SpecFeed: the remote end feeds the local connection framed messages, cut
\* into arrival chunks in every way; the local worker assembles them and the
\* owner reads.
FeedNext ==
    \/ DataWorker(Local)
    \/ handshakeReturns(Local, TRUE)
    \/ read(Local)
    \/ \E msg \in Msgs : remoteWrite(msg)
    \/ \E k \in 1..MaxChunk : remoteSend(k)

SpecFeed == Init /\ [][FeedNext]_vars

\* SpecFair: Spec with the scheduling the threads have.  The worker thread,
\* the handshake thread inside __signalClose and the owner inside close()
\* run straight-line code and are not starved.
SpecFair ==
    /\ Init
    /\ [][Next]_vars
    /\ WF_vars(Worker(Local))
    /\ WF_vars(handshakeSignalClose(Local))
    /\ WF_vars(closeSignalClose(Local) \/ closeParentIn(Local))

(***************************************************************************)
(* Part 11.  Properties                                                    *)
(***************************************************************************)

IsPrefix(s, t) == Len(s) <= Len(t) /\ s = Take(t, Len(s))

\* The byte stream of a sequence of messages: each framed, concatenated.
RECURSIVE FramesOf(_)
FramesOf(msgs) == IF msgs = << >> THEN << >> ELSE Frame(Head(msgs)) \o FramesOf(Tail(msgs))

\* The bytes connection c's worker has taken from its socket so far.
Got(c) == Take(wireLog[Peer(c)], Len(wireLog[Peer(c)]) - Len(sockIn[c]))

\* The bytes of the message the worker is still assembling.
Partial(c) ==
    IF iBufferLen[c] = 0 THEN iBuffer[c]
    ELSE serializeMessageLength(iBufferLen[c]) \o iBuffer[c]

\* C1: per direction, the messages read are, in order and byte for byte, an
\* initial part of the messages written on the other side (so none is read
\* twice, none is reordered), also when both directions are in use.
C1_Ordering == \A c \in Conns : IsPrefix(recvd[c], sent[Peer(c)])

\* C1 witness: one owner has read two different messages in the order they
\* were written while the other owner has read a message too.
C1_Witness ==
    /\ Len(recvd[Remote]) = 2
    /\ recvd[Remote][1] # recvd[Remote][2]
    /\ Len(recvd[Local]) = 1

\* C2: what the owner has read or can read is made of whole messages whose
\* header and payload bytes the worker has all received; the bytes of an
\* incomplete header or payload are in none of it.
C2_WholeMessagesOnly ==
    \A c \in Conns :
        /\ IsPrefix(FramesOf(recvd[c] \o inPipe[c]), Got(c))
        /\ handshakeComplete[c] \/ recvd[c] = << >>

\* C2 witness: the owner has read one message, the worker holds part of the
\* payload of the next one, and there is nothing for read() to return.
C2_Witness ==
    /\ Len(recvd[Local]) = 1
    /\ inPipe[Local] = << >>
    /\ iBufferLen[Local] = 2
    /\ Len(iBuffer[Local]) = 1
    /\ sockIn[Local] = << >>

\* C3: however the stream of framed messages is cut into arrivals, the
\* messages delivered, the bytes of the message being assembled and the
\* bytes not yet taken from the socket are together exactly the stream that
\* was sent: no byte is dropped or counted twice, and what is delivered is
\* an initial part of what was sent, whole once the stream is consumed.
C3_AnyChunking ==
    /\ FramesOf(delivered[Local]) \o Partial(Local) \o sockIn[Local] = wireLog[Remote]
    /\ IsPrefix(delivered[Local], sent[Remote])
    /\ (wireLog[Remote] = FramesOf(sent[Remote]) /\ sockIn[Local] = << >>)
          => delivered[Local] = sent[Remote]

\* C3 witness: two different messages were delivered, all bytes consumed.
C3_Witness ==
    /\ Len(delivered[Local]) = 2
    /\ delivered[Local] = sent[Remote]
    /\ delivered[Local][1] # delivered[Local][2]
    /\ sockIn[Local] = << >>
    /\ recvd[Local] = delivered[Local]

\* The state of connection c that a call of read() or write() could touch.
ApiState == << active, handshakeComplete, closed, outPipe, inPipe, sockIn, iBuffer,
               iBufferLen, oBuffer, sent, recvd, delivered, wireLog >>

\* C6: a read() or write() made while handshakeComplete is false raises
\* NotReady and changes nothing: nothing leaves the inbound channel, nothing
\* enters the outbound channel, no connection state changes.
C6_NotReadyGate ==
    [][\A c \in Conns :
          ~handshakeComplete[c] =>
             /\ read(c) => lastCall' = Raised(c, "read", "NotReady") /\ UNCHANGED ApiState
             /\ (\E msg \in Msgs : write(c, msg, MaxWrites))
                   => lastCall' = Raised(c, "write", "NotReady") /\ UNCHANGED ApiState]_vars

\* C6 witness: read() raised NotReady although a message was waiting.
C6_Witness ==
    /\ lastCall = Raised(Remote, "read", "NotReady")
    /\ ~handshakeComplete[Remote]
    /\ inPipe[Remote] # << >>

\* C7: handshakeComplete is true only if handshake() returned a positive
\* result; after a negative result or an exception it is false.
C7_ReadyOnlyOnSuccess ==
    \A c \in Conns :
        /\ handshakeComplete[c] => hsResult[c] = "True"
        /\ hsResult[c] \in {"False", "raised"} => ~handshakeComplete[c]

\* C7 witness: the handshake returned True and the connection is ready.
C7_Witness == handshakeComplete[Local] /\ hsResult[Local] = "True" /\ active[Local]

\* The worker's run() has returned.
Terminated(c) == wpc[c] = "done"

\* C8: once handshake() has returned a negative result or raised, eventually
\* active is false, the socket and the worker's pipe ends are closed, and the
\* worker's run() has returned.
C8_FailedHandshakeShutsDown ==
    (hsResult[Local] \in {"False", "raised"})
        ~> (/\ ~active[Local]
            /\ {"sock", "usIn", "usOut"} \subseteq closed[Local]
            /\ Terminated(Local))

\* C8 witness: the handshake returned False, nobody called close(), the peer
\* is still there, and the worker has shut down.
C8_Witness ==
    /\ hsResult[Local] = "False"
    /\ closes[Local] = 0 /\ sc[Local].owner = 0
    /\ ~PeerGone(Local)
    /\ ~active[Local]
    /\ {"sock", "usIn", "usOut"} \subseteq closed[Local]
    /\ Terminated(Local)

\* What close() leaves behind, as others can see it.
Observable == << active, closed, handshakeComplete, outPipe, inPipe, sockIn, oBuffer,
                 iBuffer, iBufferLen >>

\* C9: once close() has returned, active is false and the socket and all
\* four pipe ends are closed for good; every statement of a later close()
\* changes nothing of that, and the call returns without an error.
C9_CloseIdempotent ==
    /\ [](closes[Local] >= 1 => ~active[Local] /\ closed[Local] = FDs)
    /\ [][closes[Local] >= 1 =>
            /\ (close(Local) \/ closeSignalClose(Local) \/ closeParentIn(Local))
                  => UNCHANGED Observable
            /\ closeParentIn(Local) => lastCall' = Returned]_vars

\* C9 witness: close() has returned twice on a connection whose worker had
\* shut itself down after a failed handshake.
C9_Witness ==
    /\ closes[Local] = 2
    /\ hsResult[Local] = "False"
    /\ Terminated(Local)
    /\ lastCall = Returned

\* C10: once the owner is in close(), the worker's run() eventually returns,
\* in every strategy.
C10_CloseStopsWorker == (sc[Local].owner >= 1) ~> Terminated(Local)

\* C10 witness: a PollStocking worker whose handshake succeeded and whose peer
\* is still there has returned after close().
C10_Witness ==
    /\ strategy = "PollStocking"
    /\ closes[Local] = 1
    /\ hsResult[Local] = "True"
    /\ ~PeerGone(Local)
    /\ werr[Local] = "none"
    /\ Terminated(Local)


\* C14: _parentIn is released last.  Whenever it is closed, active is false
\* and the socket and the other three pipe ends are closed already; the only
\* step that closes it is the last statement of the owner's close().
C14_ParentInLast ==
    /\ [](IsClosed(Local, "parentIn") => ~active[Local] /\ closed[Local] = FDs)
    /\ [][(~IsClosed(Local, "parentIn") /\ IsClosed(Local, "parentIn")')
             => closeParentIn(Local)]_vars

\* C14 witness: the worker had shut down by itself after a failed handshake,
\* with _parentIn left open, and the owner's close() has then closed it.
C14_Witness ==
    /\ IsClosed(Local, "parentIn")
    /\ closes[Local] = 1
    /\ hsResult[Local] = "False"
    /\ Terminated(Local)

\* C15: a worker whose run() has ended, in whatever way (an error that
\* propagated included), has left active false and the socket and the pipe
\* ends __signalClose closes closed.
C15_ReleaseBeforeEnd ==
    Terminated(Local) =>
        /\ ~active[Local]
        /\ {"sock", "usIn", "usOut", "parentOut"} \subseteq closed[Local]

\* C15 witness: run() ended with an error that propagated, the owner never
\* called close(), and everything is released.
C15_Witness ==
    /\ Terminated(Local)
    /\ werr[Local] \notin {"none"} \cup Swallowed[strategy]
    /\ closes[Local] = 0 /\ sc[Local].owner = 0
    /\ ~active[Local]
    /\ {"sock", "usIn", "usOut", "parentOut"} \subseteq closed[Local]

\* C16: in PollStocking and in SelectStocking a connection-reset or
\* connection-aborted error of the socket never propagates out of run().
C16_ResetIsBenign ==
    strategy \in {"PollStocking", "SelectStocking"}
        => werr[Local] \notin {"ECONNRESET", "ECONNABORTED"}

\* C18 (what one behaviour shows of it): the termination outcome does not
\* depend on the strategy, so an error that ends one strategy's run()
\* silently does not propagate out of the other's.
C18_SameOutcome ==
    /\ strategy = "SelectStocking" => werr[Local] \notin Swallowed["PollStocking"]
    /\ strategy = "PollStocking" => werr[Local] \notin Swallowed["SelectStocking"]


\* C11: once the peer has closed its end, this side's worker eventually
\* terminates and the connection is inactive; it never stays half-open.
C11_PeerCloseEndsWorker ==
    PeerGone(Local) ~> (Terminated(Local) /\ ~active[Local])

\* C11 witness: the handshake had succeeded, the owner never called close(),
\* the peer closed, and the worker has ended without an error.
C11_Witness ==
    /\ PeerGone(Local)
    /\ hsResult[Local] = "True"
    /\ closes[Local] = 0 /\ sc[Local].owner = 0
    /\ werr[Local] = "none"
    /\ Terminated(Local) /\ ~active[Local]


(***************************************************************************)
(* Part 12.  The worker's own shutdown with messages still unread          *)
(***************************************************************************)

\* SpecDrain: SpecFeed where the remote may also close and the local worker
\* then runs its finally clause; the owner only reads, it never closes.
DrainNext ==
    \/ DataWorker(Local)
    \/ runFinally(Local)
    \/ handshakeReturns(Local, TRUE)
    \/ read(Local)
    \/ \E msg \in Msgs : remoteWrite(msg)
    \/ \E k \in 1..MaxChunk : remoteSend(k)
    \/ remoteClose

SpecDrain == Init /\ [][DrainNext]_vars

\* C13: after the worker shut down by itself, a complete message it had
\* delivered to the inbound pipe and the owner has not read yet can still be
\* obtained: a read() that returns the oldest such message is possible.
C13_DrainAfterShutdown ==
    (/\ Terminated(Local)
     /\ closes[Local] = 0
     /\ handshakeComplete[Local]
     /\ inPipe[Local] # << >>)
        => ENABLED (/\ read(Local)
                    /\ recvd'[Local] = Append(recvd[Local], Head(inPipe[Local])))


(***************************************************************************)
(* Part 13.  A readable event that is followed by a would-block recv       *)
(***************************************************************************)

\* poll() and select() may report a socket readable although the recv that
\* follows finds nothing and fails with EAGAIN (select(2), BUGS).  What
\* poll() then returns: ReadyEvents with POLLIN added for the socket.
SpuriousEvents(c) ==
    LET others == { e \in ReadyEvents(c) : e[1] # "sock" }
        bits == UNION { e[2] : e \in ReadyEvents(c) \ others }
    IN  others \cup { << "sock", bits \cup {"IN"} >> }

\* run(): self._poller.poll() returns with such a readable event.
runPollSpurious(c) ==
    /\ wpc[c] = "poll"
    /\ registered[c]
    /\ ~IsClosed(c, "sock")
    /\ ~SockReadable(c)
    /\ events' = [events EXCEPT ![c] = SpuriousEvents(c)]
    /\ Goto(c, "dispatch")
    /\ UNCHANGED << hdrVars, strategy, active, handshakeComplete, hs, hsResult, closed, outPipe,
                    inPipe, sockIn, iBuffer, iBufferLen, oBuffer, registered,
                    sockMask, werr, ioLock, closes, lastCall, sent, recvd,
                    delivered, wireLog >>

\* SelectStocking.run(): select.select() returns with such a readable event.
runSelectSpurious(c) ==
    /\ wpc[c] = "select"
    /\ ~IsClosed(c, "sock")
    /\ ~SockReadable(c)
    /\ events' = [events EXCEPT ![c] =
          {<< "sock", {"IN"} >>}
          \cup (IF (oBuffer[c] # << >> \/ checkReadablePipe(c)) /\ SockWritable(c)
                THEN {<< "sock", {"OUT"} >>} ELSE {})]
    /\ Goto(c, "selectRecv")
    /\ UNCHANGED << hdrVars, strategy, active, handshakeComplete, hs, hsResult, closed, outPipe,
                    inPipe, sockIn, iBuffer, iBufferLen, oBuffer, registered,
                    sockMask, werr, ioLock, closes, lastCall, sent, recvd,
                    delivered, wireLog >>

\* SpecWouldBlock: SpecDrain where a readable event may be spurious.
WouldBlockNext ==
    \/ DataWorker(Local)
    \/ runPollSpurious(Local)
    \/ runSelectSpurious(Local)
    \/ runFinally(Local)
    \/ handshakeReturns(Local, TRUE)
    \/ read(Local)
    \/ \E msg \in Msgs : remoteWrite(msg)
    \/ \E k \in 1..MaxChunk : remoteSend(k)
    \/ remoteClose

SpecWouldBlock == Init /\ [][WouldBlockNext]_vars

\* The worker's step is a recv that follows a readable event of the socket
\* and gets a would-block: the socket is open, has no unread byte, and the
\* peer has not closed; no termination is in progress.
WouldBlockRecv(c) ==
    /\ \/ /\ wpc[c] = "dispatch"
          /\ \E e \in events[c] \ events'[c] : e[1] = "sock" /\ "IN" \in e[2]
       \/ /\ wpc[c] = "selectRecv" /\ wpc'[c] # "selectRecv"
          /\ << "sock", {"IN"} >> \in events[c]
    /\ active[c] /\ closed[c] = {}
    /\ sockIn[c] = << >> /\ ~PeerGone(c)

\* C17 (its receive half): a would-block on a recv attempted after a
\* readable event is swallowed and does not end the worker loop: the worker
\* goes on, the connection stays active, and the buffers are as they were.
C17_WouldBlockSwallowed ==
    [][WouldBlockRecv(Local)
         => /\ wpc'[Local] \notin {"finally", "done"}
            /\ active'[Local]
            /\ iBuffer'[Local] = iBuffer[Local]
            /\ iBufferLen'[Local] = iBufferLen[Local]
            /\ oBuffer'[Local] = oBuffer[Local]]_vars


(***************************************************************************)
(* Part 14.  Delivery of what was written                                  *)
(***************************************************************************)

\* SpecDeliver: two connected ends that neither close nor fail; the first
\* owner writes back to back, the second reads.  Both worker threads are
\* scheduled fairly; a worker blocked in poll() has no enabled step.
DeliverNext ==
    \/ DataWorker(Local)
    \/ DataWorker(Remote)
    \/ \E c \in Conns : handshakeReturns(c, TRUE)
    \/ \E msg \in Msgs : write(Local, msg, MaxWrites)
    \/ read(Remote)

SpecDeliver ==
    /\ Init
    /\ [][DeliverNext]_vars
    /\ WF_vars(DataWorker(Local))
    /\ WF_vars(DataWorker(Remote))

\* C12: every non-empty message an owner has written is eventually handed
\* to the peer's inbound pipe, where the peer's read() finds it: the n-th
\* written message is eventually the n-th delivered one.
C12_EventuallyDelivered ==
    \A n \in 1..MaxWrites :
        (Len(sent[Local]) >= n) ~> (Len(delivered[Remote]) >= n)


(***************************************************************************)
(* Part 15.  The maximum message length                                    *)
(***************************************************************************)

\* SpecSize: a Connection constructed with maxMsgLen = SmallMaxMsgLen, the
\* smallest maximum that gives the default's two-byte header.  Its owner
\* writes messages one byte long, exactly as long as the maximum, and one
\* byte longer; the worker sends them and the remote receives.
SmallMaxMsgLen == 257

SizeMsgs ==
    { [i \in 1..n |-> 6 + (n % 2)] : n \in {1, SmallMaxMsgLen, SmallMaxMsgLen + 1} }

SizeNext ==
    \/ DataWorker(Local)
    \/ handshakeReturns(Local, TRUE)
    \/ \E msg \in SizeMsgs : writeMax(Local, msg, MaxWrites, SmallMaxMsgLen)
    \/ remoteRecv

SpecSize == Init /\ [][SizeNext]_vars

\* C19: on a ready connection a write of a message longer than maxMsgLen
\* raises at once and changes nothing (nothing is queued, what was queued
\* and the connection state stay as they were); a write of a message of
\* exactly maxMsgLen bytes on an active connection returns and queues the
\* message behind what was queued.
C19_OversizeRejected ==
    [][\A msg \in SizeMsgs :
          (handshakeComplete[Local]
             /\ writeMax(Local, msg, MaxWrites, SmallMaxMsgLen))
          => IF Len(msg) > SmallMaxMsgLen
             THEN /\ lastCall' = Raised(Local, "write", "Exception")
                  /\ UNCHANGED ApiState
             ELSE /\ lastCall'.exc = "none"
                  /\ active[Local] =>
                        /\ lastCall' = Returned
                        /\ outPipe'[Local] = Append(outPipe[Local], Frame(msg))
                        /\ sent'[Local] = Append(sent[Local], msg)]_vars

\* C19 witness: a message of exactly maxMsgLen bytes was accepted, and a
\* later write of a longer message has just raised while the accepted one
\* was still queued, untouched.
C19_Witness ==
    /\ lastCall = Raised(Local, "write", "Exception")
    /\ Len(sent[Local]) = 1
    /\ Len(sent[Local][1]) = SmallMaxMsgLen
    /\ outPipe[Local] = << Frame(sent[Local][1]) >>


\* C20: a write of the empty message on a ready connection returns without
\* an error and changes nothing the peer could observe (no pipe, buffer or
\* socket changes, so the peer's read() gives what it would have given);
\* the messages written around it are the only ones framed onto the wire
\* and delivered, in order, and no empty message is ever delivered.
C20_EmptyWriteInvisible ==
    /\ [][\A c \in Conns :
            (handshakeComplete[c]
               /\ write(c, << >>, IF c = Local THEN MaxWrites ELSE MaxWritesPeer))
            => lastCall'.exc = "none" /\ UNCHANGED ApiState]_vars
    /\ [](\A c \in Conns :
            /\ \A i \in 1..Len(sent[c]) : sent[c][i] # << >>
            /\ IsPrefix(wireLog[c], FramesOf(sent[c]))
            /\ IsPrefix(delivered[Peer(c)], sent[c]))

\* C20 witness: a message was written, delivered and read by the peer; the
\* writer's last call then was a write of the empty message, and nothing is
\* queued, buffered or in flight towards the peer.
C20_Witness ==
    /\ lastCall = WroteNothing(Local)
    /\ handshakeComplete[Local] /\ active[Local]
    /\ Len(sent[Local]) = 1
    /\ recvd[Remote] = sent[Local]
    /\ outPipe[Local] = << >> /\ oBuffer[Local] = << >>
    /\ sockIn[Remote] = << >> /\ inPipe[Remote] = << >>


C22_StartupSerialized ==
    strategy = "PollStocking" =>
        /\ wpc[Local] = "registering" => ioLock[Local] /\ sc[Local].owner = 0
        /\ (wpc[Local] = "registering" /\ hsResult[Local] \notin {"False", "raised"})
              => closed[Local] = {}
        /\ ~registered[Local] => wpc[Local] \notin {"poll", "dispatch"}
        /\ (wpc[Local] = "poll" /\ ReadyEvents(Local) = {}) => closed[Local] = {}

\* C22 witness: the owner's close() came before the worker's registration;
\* the worker found the connection inactive, registered nothing and ended
\* without an error.
C22_Witness ==
    /\ strategy = "PollStocking"
    /\ closes[Local] = 1
    /\ hsResult[Local] \notin {"False", "raised"}
    /\ ~registered[Local]
    /\ Terminated(Local)
    /\ werr[Local] = "none"


(***************************************************************************)
(* Part 16.  Becoming ready                                                *)
(***************************************************************************)

\* SpecReady: SpecFeed with the scheduling the threads have: the worker
\* thread and the handshake thread (the default handshake() only returns
\* True) are not starved.  The owner makes no call it is obliged to make.
SpecReady ==
    /\ Init
    /\ [][FeedNext]_vars
    /\ WF_vars(DataWorker(Local))
    /\ WF_vars(handshakeReturns(Local, TRUE))

\* C23: with the default handshake, no close and a connected peer, the
\* connection eventually is ready and stays so: handshakeComplete is true
\* while active is true and the worker is running.
C23_EventuallyReady ==
    <>[](/\ handshakeComplete[Local]
         /\ active[Local]
         /\ wpc[Local] \notin {"start", "finally", "done"})

\* C23 witness: the connection is ready and active, the owner has made no
\* call, and the worker is blocked in poll() with nothing for it to do.
C23_Witness ==
    /\ handshakeComplete[Local] /\ active[Local]
    /\ lastCall = Returned /\ recvd[Local] = << >>
    /\ wpc[Local] = "poll" /\ ReadyEvents(Local) = {}
    /\ closed[Local] = {} /\ ~PeerGone(Local)


\* C24: the worker takes the next message from the pipe only when _oBuffer
\* is empty.  With n the number of messages taken so far, the bytes put on
\* the socket followed by _oBuffer are exactly the frames of the first n
\* written messages, _oBuffer is no longer than the n-th frame (the unsent
\* suffix of one message), and the pipe holds the frames of the others.
C24_OneMessageBuffered ==
    LET n == Len(sent[Local]) - Len(outPipe[Local])
    IN  /\ n >= 0
        /\ wireLog[Local] \o oBuffer[Local] = FramesOf(SubSeq(sent[Local], 1, n))
        /\ oBuffer[Local] # << >> =>
              n >= 1 /\ Len(oBuffer[Local]) <= Len(Frame(sent[Local][n]))
        /\ outPipe[Local]
              = [i \in 1..Len(outPipe[Local]) |-> Frame(sent[Local][n + i])]

\* C24 witness: part of the first message is on the socket, the rest of it
\* is in _oBuffer, and the second message waits in the pipe.
C24_Witness ==
    /\ Len(sent[Local]) = 2
    /\ Len(outPipe[Local]) = 1
    /\ oBuffer[Local] # << >>
    /\ wireLog[Local] # << >>
    /\ Len(wireLog[Local]) < Len(Frame(sent[Local][1]))


\* C25: in PollStocking, whenever the worker is in its loop about to poll or
\* blocked in poll(), the socket is registered for POLLOUT if and only if
\* _oBuffer is not empty (also after a send that got a would-block).
C25_PollWriteInterest ==
    (strategy = "PollStocking" /\ registered[Local]
       /\ wpc[Local] \in {"loop", "poll", "dispatch"})
        => (sockMask[Local] = "INOUT" <=> oBuffer[Local] # << >>)

\* C25 witness: a PollStocking worker is blocked in poll() with a whole
\* message in _oBuffer that a full socket refused, and POLLOUT is on.
C25_Witness ==
    /\ strategy = "PollStocking"
    /\ wpc[Local] = "poll"
    /\ Len(sent[Local]) = 2
    /\ oBuffer[Local] = Frame(sent[Local][2])
    /\ sockMask[Local] = "INOUT"

\* C26: in Connection, whenever the worker is blocked in poll() with unsent
\* bytes in _oBuffer, the socket is registered for POLLOUT.
C26_ConnectionWriteInterest ==
    (strategy = "Connection" /\ wpc[Local] = "poll" /\ oBuffer[Local] # << >>)
        => sockMask[Local] = "INOUT"


(***************************************************************************)
(* Part 17.  The layout of a serialized header                             *)
(***************************************************************************)

\* The header bytes a length needs: one, and one more for every width step
\* (6, 13, 20, 27 length bits) the length reaches.
MinimalHeaderLen(length) ==
    1 + Cardinality({ k \in 1..4 : length >= 2^(6 + 7 * (k - 1)) })

\* C27: serialize emits the minimal number of bytes (1 below 2^6, k+1 from
\* 2^(6+7(k-1)) up to 2^(6+7k)-1); the first byte carries the low 6 length
\* bits, the i-th byte (i >= 2) the next 7 bits each; and the last byte of
\* a header of several bytes carries length bits that are not all zero.
C27_MinimalHeader ==
    /\ Len(hBytes) = MinimalHeaderLen(hLength)
    /\ hBytes[1] % 64 = hLength % 64
    /\ \A i \in 2..Len(hBytes) :
          hBytes[i] % 128 = (hLength \div 2^(6 + 7 * (i - 2))) % 128
    /\ Len(hBytes) > 1 => hBytes[Len(hBytes)] % 128 # 0
    /\ hLength = 63 => Len(hBytes) = 1
    /\ hLength = 64 => Len(hBytes) = 2
    /\ hLength = 8191 => Len(hBytes) = 2
    /\ hLength = 8192 => Len(hBytes) = 3

\* C27 witness: the header of length 8192, three bytes, has been parsed
\* back whole.
C27_Witness ==
    /\ hLength = 8192
    /\ Len(hBytes) = 3
    /\ hFed = 3
    /\ getLength(hInst) = 8192


\* C28: in a serialized header the terminal bit (128) is set on the last
\* byte and on no earlier one; hence no header is a proper prefix of another
\* header, and a parser fed the header has completed exactly when the last
\* byte has been fed.
C28_SelfDelimiting ==
    /\ \A i \in 1..Len(hBytes) : (hBytes[i] >= 128) <=> (i = Len(hBytes))
    /\ \A typ \in PyTypes, length \in HdrLengths :
          LET other == serialize(typ, length)
          IN  IsPrefix(hBytes, other) => other = hBytes
    /\ hInst.completed <=> (hFed = Len(hBytes))

\* C28 witness: four bytes of a 5-byte header were fed in three calls and
\* the parser has not completed.
C28_Witness ==
    /\ Len(hBytes) = 5
    /\ hFed = 4
    /\ Len(hRets) = 3
    /\ ~hInst.completed


\* C29: while the header is not completely parsed (fresh instance, just
\* reset, or after the first bytes of a header of several bytes) getLength()
\* and getType() both give None.
C29_DefinedOnlyWhenComplete ==
    ~hInst.completed =>
        /\ getLength(hInst) = None
        /\ getType(hInst) = None


(***************************************************************************)
(* Part 18.  The fixed-width length header and the configured maxMsgLen    *)
(***************************************************************************)

\* SpecLen: a Connection is constructed with some maxMsgLen, and the lengths
\* of messages write() accepts (1..maxMsgLen) are serialized and parsed back.
MaxSmallMsgLen == 3
LenBoundaries == {255, 256, 257, 65535, 65536, 65537, 16777215, 16777216}
LenMaxMsgLens == (1..MaxSmallMsgLen) \cup LenBoundaries
LenLengths(max) == { n \in (1..MaxSmallMsgLen) \cup LenBoundaries : n <= max }

LenInit ==
    /\ strategy = "Connection"
    /\ ConnInit
    /\ HdrIdle
    /\ EintrIdle
    /\ szMaxMsgLen \in LenMaxMsgLens
    /\ szLength = 1
    /\ szSt = << >>
    /\ szBack = None

\* header = self.__serializeMessageLength(len(msg))
lenSerialize ==
    /\ szSt = << >>
    /\ szSt' = serializeMessageLengthW(szLength, headerLenOf(szMaxMsgLen))
    /\ UNCHANGED << szMaxMsgLen, szLength, szBack >>
    /\ UNCHANGED << hTyp, hLength, hInst, hFed, hRets, hUses, eintrVars, connVars >>

\* self._iBufferLen = self.__deserializeMessageLength(header)
lenDeserialize ==
    /\ szSt # << >>
    /\ szBack = None
    /\ szBack' = deserializeMessageLength(szSt)
    /\ UNCHANGED << szMaxMsgLen, szLength, szSt >>
    /\ UNCHANGED << hTyp, hLength, hInst, hFed, hRets, hUses, eintrVars, connVars >>

\* The next message, of length n, is written.
lenNextMsg(n) ==
    /\ szBack # None
    /\ n # szLength
    /\ szLength' = n
    /\ szSt' = << >>
    /\ szBack' = None
    /\ UNCHANGED szMaxMsgLen
    /\ UNCHANGED << hTyp, hLength, hInst, hFed, hRets, hUses, eintrVars, connVars >>

LenNext ==
    \/ lenSerialize
    \/ lenDeserialize
    \/ \E n \in LenLengths(szMaxMsgLen) : lenNextMsg(n)

SpecLen == LenInit /\ [][LenNext]_vars

\* C30: in the fixed-header Connection, for every maxMsgLen >= 1 and every
\* message length n in 1..maxMsgLen, the serialized length header has exactly
\* _headerLen bytes, and deserializing it gives n again.
C30_HeaderFitsWidth ==
    /\ szLength \in 1..szMaxMsgLen
    /\ szSt # << >> =>
          /\ Len(szSt) = headerLenOf(szMaxMsgLen)
          /\ szSt = serializeMessageLengthW(szLength, headerLenOf(szMaxMsgLen))
          /\ deserializeMessageLength(szSt) = szLength
    /\ szBack # None => szBack = szLength

C30_Witness ==
    /\ szMaxMsgLen = 65537
    /\ szLength = 65537
    /\ szSt = << 0, 0, 1 >>
    /\ szBack = 65537


(***************************************************************************)
(* Part 19.  Receiving and the API while the connection is being closed    *)
(***************************************************************************)

\* SpecCloseFeed: a connection whose handshake returns True; the remote feeds
\* it framed messages in chunks; the owner may close at any moment.
CloseFeedNext ==
    \/ DataWorker(Local)
    \/ runFinally(Local)
    \/ handshakeReturns(Local, TRUE)
    \/ close(Local)
    \/ closeSignalClose(Local)
    \/ closeParentIn(Local)
    \/ \E msg \in Msgs : remoteWrite(msg)
    \/ \E k \in 1..MaxChunk : remoteSend(k)

SpecCloseFeed == Init /\ [][CloseFeedNext]_vars

\* The worker can still make a receive step.
RecvRunning(c) == wpc[c] \notin {"finally", "done"}

\* The bytes (header included) the worker holds of the message that follows
\* those handed to _usOut before this step, as they are after the step.
AssembledAfter(c) == Drop(Got(c)', Len(FramesOf(delivered[c])))

\* These bytes are a whole frame: the header and as many payload bytes as it
\* announces.
WholeFrame(bytes) ==
    /\ Len(bytes) >= headerLen
    /\ Len(bytes) - headerLen = deserializeMessageLength(Take(bytes, headerLen))

\* A step of __recvMessage that took bytes or handed a message over.
RecvStep(c) ==
    << iBuffer[c], iBufferLen[c], delivered[c] >>'
        # << iBuffer[c], iBufferLen[c], delivered[c] >>

\* _iBufferLen is 0 while the header is incomplete, and the buffer is always
\* short of what it is waiting for.
BufferShort(c) ==
    /\ iBufferLen[c] = 0 => Len(iBuffer[c]) < headerLen
    /\ iBufferLen[c] > 0 => Len(iBuffer[c]) < iBufferLen[c]

\* What the worker took from the socket is the frames handed over followed
\* by the part of the next frame it holds: no byte of a later message is in
\* an earlier one.
NothingMixed(c) ==
    ~IsClosed(c, "sock") => Got(c) = FramesOf(delivered[c]) \o Partial(c)

\* C31 as stated: between receive steps the buffer is short of what it waits
\* for; a receive step hands a message to the owner exactly when the buffer
\* reaches the announced length, and then resets buffer and expected length;
\* bytes of the next message are never mixed into the current one.
C31_HandedExactlyWhenComplete ==
    /\ [](RecvRunning(Local) => BufferShort(Local))
    /\ [](RecvRunning(Local) => NothingMixed(Local))
    /\ [][RecvStep(Local) =>
            /\ (delivered[Local]' # delivered[Local]) <=> WholeFrame(AssembledAfter(Local))
            /\ delivered[Local]' # delivered[Local] =>
                  /\ delivered[Local]' = Append(delivered[Local],
                                                Drop(AssembledAfter(Local), headerLen))
                  /\ iBuffer[Local]' = << >>
                  /\ iBufferLen[Local]' = 0]_vars

\* C31, amended: the same, except that a message completed after the owner
\* closed the connection (so that _usOut is closed) is not handed over: the
\* send raises, the whole payload stays in _iBuffer and the worker makes no
\* further receive step.
C31_HandedWhenCompleteAndOpen ==
    /\ [](RecvRunning(Local) => BufferShort(Local))
    /\ [](RecvRunning(Local) => NothingMixed(Local))
    /\ [][RecvStep(Local) =>
            /\ (delivered[Local]' # delivered[Local])
                   <=> (WholeFrame(AssembledAfter(Local)) /\ ~IsClosed(Local, "usOut"))
            /\ delivered[Local]' # delivered[Local] =>
                  /\ delivered[Local]' = Append(delivered[Local],
                                                Drop(AssembledAfter(Local), headerLen))
                  /\ iBuffer[Local]' = << >>
                  /\ iBufferLen[Local]' = 0
            /\ (WholeFrame(AssembledAfter(Local)) /\ IsClosed(Local, "usOut")) =>
                  /\ ~RecvRunning(Local)'
                  /\ werr[Local]' = "HandleClosed"
                  /\ Len(iBuffer[Local]') = iBufferLen[Local]']_vars

\* C31 witness: the owner closed while the second message was on its way;
\* the first message was handed over, the second one is complete in _iBuffer
\* and was not, and the worker has stopped receiving.
C31_Witness ==
    /\ Len(delivered[Local]) = 1
    /\ iBufferLen[Local] = 2
    /\ Len(iBuffer[Local]) = 2
    /\ IsClosed(Local, "usOut")
    /\ ~RecvRunning(Local)


(***************************************************************************)
(* Part 20.  eintr.recv                                                    *)
(***************************************************************************)

\* errno.errorcode: the dictionary from the platform's error numbers to
\* their names (Linux: EWOULDBLOCK is the number of EAGAIN and has no entry
\* of its own; the WSA names exist on Windows only).
errorcode ==
    [n \in {4, 9, 11, 88, 104, 108} |->
        CASE n = 4   -> "EINTR"
          [] n = 9   -> "EBADF"
          [] n = 11  -> "EAGAIN"
          [] n = 88  -> "ENOTSOCK"
          [] n = 104 -> "ECONNRESET"
          [] n = 108 -> "ESHUTDOWN"]

\* errno.EINTR
EINTR == CHOOSE n \in DOMAIN errorcode : errorcode[n] = "EINTR"

MASKED_ERRORS == {"EAGAIN", "WSAEWOULDBLOCK", "EWOULDBLOCK", "ENOTSOCK", "WSAESHUTDOWN"}

\* except (IOError, socket.error): socket.timeout is a socket.error.
CaughtClasses == {"IOError", "socket.error", "socket.timeout"}

\* An error number no entry of errno.errorcode has.
UnlistedErrno == 1 + (CHOOSE n \in DOMAIN errorcode : \A m \in DOMAIN errorcode : m <= n)

\* What one call of sock.recv can give: bytes (none at end of stream), an
\* error carrying an error number, an error carrying none (socket.timeout on
\* a socket with a timeout, an IOError built from a message only), or an
\* exception of another class.
RecvData == { [kind |-> "data", bytes |-> b, exc |-> NoError] : b \in {<< >>, << 7 >>, << 7, 8 >>} }
RecvErrors ==
    { [kind |-> "error", bytes |-> << >>, exc |-> [cls |-> cls, errno |-> n]] :
        cls \in {"IOError", "socket.error"}, n \in DOMAIN errorcode \cup {UnlistedErrno, None} }
    \cup { [kind |-> "error", bytes |-> << >>, exc |-> [cls |-> "socket.timeout", errno |-> None]],
           [kind |-> "error", bytes |-> << >>, exc |-> [cls |-> "TypeError", errno |-> None]] }
RecvOutcomes == RecvData \cup RecvErrors

Interrupted(o) == o.kind = "error" /\ o.exc.cls \in CaughtClasses /\ o.exc.errno = EINTR

\* How often in a row a call is interrupted.
MaxInterrupts == 2
Interruptions ==
    { [i \in 1..k |-> [kind |-> "error", bytes |-> << >>,
                       exc |-> [cls |-> cls, errno |-> EINTR]]] :
        k \in 0..MaxInterrupts, cls \in {"IOError", "socket.error"} }

Returns(b) == [how |-> "return", isNone |-> FALSE, bytes |-> b, exc |-> NoError]
ReturnsNone == [how |-> "return", isNone |-> TRUE, bytes |-> << >>, exc |-> NoError]
Raises(e) == [how |-> "raise", isNone |-> FALSE, bytes |-> << >>, exc |-> e]
Continues == [how |-> "continue", isNone |-> FALSE, bytes |-> << >>, exc |-> NoError]

\* One turn of the loop of eintr.recv, sock.recv giving o.
recvTurn(o) ==
    IF o.kind = "data" THEN Returns(o.bytes)
    ELSE IF o.exc.cls \notin CaughtClasses THEN Raises(o.exc)
    ELSE IF o.exc.errno = EINTR THEN Continues
    ELSE IF o.exc.errno \notin DOMAIN errorcode
         THEN Raises([cls |-> "KeyError", errno |-> None])
    ELSE IF errorcode[o.exc.errno] \in MASKED_ERRORS THEN ReturnsNone
    ELSE Raises(o.exc)

\* eintr.recv(sock, bytes) is called; the socket will give outs.
eintrRecvCall(outs) ==
    /\ rvPc = "idle"
    /\ rvOutcomes' = outs
    /\ rvPc' = "calling"
    /\ UNCHANGED << rvTurns, rvResult >>
    /\ UNCHANGED << hTyp, hLength, hInst, hFed, hRets, hUses, lenVars, connVars >>

\* while True: try: return sock.recv(bytes) / except ...
eintrRecvTurn ==
    /\ rvPc = "calling"
    /\ rvTurns < Len(rvOutcomes)
    /\ LET t == recvTurn(rvOutcomes[rvTurns + 1])
       IN  /\ rvTurns' = rvTurns + 1
           /\ UNCHANGED rvOutcomes
           /\ IF t.how = "continue"
              THEN UNCHANGED << rvPc, rvResult >>
              ELSE rvPc' = "done" /\ rvResult' = t
    /\ UNCHANGED << hTyp, hLength, hInst, hFed, hRets, hUses, lenVars, connVars >>

EintrNext ==
    \/ \E pre \in Interruptions, o \in { x \in RecvOutcomes : ~Interrupted(x) } :
           eintrRecvCall(Append(pre, o))
    \/ eintrRecvTurn

EintrInit ==
    /\ strategy = "Connection"
    /\ ConnInit
    /\ HdrIdle
    /\ LenIdle
    /\ EintrIdle

SpecEintr == EintrInit /\ [][EintrNext]_vars

\* C32: eintr.recv classifies every outcome of sock.recv: interruptions are
\* retried and never reported; on success the bytes read are returned; on an
\* error of the masked set None is returned; every other error is re-raised
\* unchanged.
C32_EveryOutcomeClassified ==
    /\ rvPc = "calling" =>
          \A i \in 1..rvTurns : Interrupted(rvOutcomes[i])
    /\ rvPc = "done" =>
          LET o == rvOutcomes[rvTurns]
          IN  /\ \A i \in 1..(rvTurns - 1) : Interrupted(rvOutcomes[i])
              /\ ~Interrupted(o)
              /\ ~(rvResult.how = "raise" /\ rvResult.exc.errno = EINTR)
              /\ IF o.kind = "data" THEN rvResult = Returns(o.bytes)
                 ELSE IF /\ o.exc.cls \in CaughtClasses
                         /\ o.exc.errno \in DOMAIN errorcode
                         /\ errorcode[o.exc.errno] \in MASKED_ERRORS
                 THEN rvResult = ReturnsNone
                 ELSE rvResult = Raises(o.exc)


(***************************************************************************)
(* Part 21.  The API of a connection that has become inactive              *)
(***************************************************************************)

\* What the owner writes in SpecClosed: a message that fits and one longer
\* than maxMsgLen.
ClosedMsgs == { m \in SizeMsgs : Len(m) # SmallMaxMsgLen }

\* SpecClosed: a connection with maxMsgLen = SmallMaxMsgLen whose handshake
\* returns True; the remote sends it one-byte messages, each frame in one
\* piece, and may close, which shuts the worker down; the owner reads,
\* writes and may close at any moment, and goes on reading and writing
\* afterwards.
ClosedNext ==
    \/ DataWorker(Local)
    \/ runFinally(Local)
    \/ handshakeReturns(Local, TRUE)
    \/ read(Local)
    \/ \E msg \in ClosedMsgs : writeMax(Local, msg, MaxWritesLife, SmallMaxMsgLen)
    \/ close(Local)
    \/ closeSignalClose(Local)
    \/ closeParentIn(Local)
    \/ \E msg \in { m \in Msgs : Len(m) = 1 } : remoteWrite(msg)
    \/ remoteSend(headerLen + 1)
    \/ remoteClose

SpecClosed == Init /\ [][ClosedNext]_vars

\* The handshake completed and the connection is no longer active.
Inactive(c) == handshakeComplete[c] /\ ~active[c]

=============================================================================
